---- MODULE Spec2Model ----
(***************************************************************************)
(* Task lifecycle and reward engine of the family bot: the store (users,   *)
(* tasks, assigned_tasks, transactions), the chat handlers of              *)
(* control-bot/src/bot.py that change it, and the sweeps of                *)
(* task-scheduler/src/task_scheduler.py.                                   *)
(*                                                                         *)
(* Time is one clock, `now`, counted in ticks.  A day has TicksPerDay      *)
(* ticks; the tick before the last is 23:59:59 (end_of_day in the code)    *)
(* and the last tick is the half second after it, still the same calendar  *)
(* day.  Day 0 is a Monday.                                                *)
(***************************************************************************)
EXTENDS Integers, Sequences, FiniteSets, TLC

VARIABLES
    now,            \* datetime.now() / NOW(): the current instant, in ticks
    schema,         \* schema.sql, which the program reads and does not carry:
                    \* the type of the column assigned_tasks.assigned_date and
                    \* the foreign key from assigned_tasks to tasks
    users,          \* table users: user_id -> row, role "none" = no row
    tasks,          \* table tasks: set of rows
    assigned,       \* table assigned_tasks: set of rows
    transactions,   \* table transactions: rows in transaction_id order
    nextTaskId,     \* SERIAL tasks.task_id
    nextAssignmentId, \* SERIAL assigned_tasks.assignment_id
    user_temp_data, \* bot.user_temp_data: user_id -> wizard session or NoSession
    out,            \* what the last handler answered and sent
    last,           \* the last successful completion: assignment and balance before it
    pc,             \* concurrent requests: position of each request
    loc             \* concurrent requests: what each request has read so far

vars == <<now, schema, users, tasks, assigned, transactions, nextTaskId,
          nextAssignmentId, user_temp_data, out, last, pc, loc>>

store == <<users, tasks, assigned, transactions, nextTaskId, nextAssignmentId>>

-----------------------------------------------------------------------------
\* Bounds of the model

TicksPerDay == 4
FirstDay == 5
Horizon == 2
MaxTx == 3
MaxAssigned == 4

-----------------------------------------------------------------------------
\* Values

NULL == 0 - 1
NoParent == "NULL"
\* a wizard session, user_temp_data[user_id]; a key the dict lacks is "NULL" / NULL
\* (title: whether the key is there; selected_children: [] when the key is missing)
BlankSession ==
    [present |-> TRUE, action |-> "NULL", step |-> "NULL", child_id |-> "NULL",
     created_by |-> "NULL", title |-> FALSE, type |-> "NULL", reward |-> NULL,
     due_time |-> NULL, due_day |-> "NULL", custom_due_date |-> NULL,
     selected_children |-> <<>>]
\* user_id not in user_temp_data
NoSession == [BlankSession EXCEPT !.present = FALSE]
NoLast == [assignment_id |-> NULL, balance |-> 0]

\* the requests that can be in flight at once, and what an idle one holds
Requests == {1, 2}
NoLoc == [user_id |-> "NULL"]

Admins == {"a1", "a2"}
Children == {"c1", "c2", "c3"}
UserIds == Admins \cup Children
UserOrder == <<"a1", "a2", "c1", "c2", "c3">>

weekday_map == <<"monday", "tuesday", "wednesday", "thursday", "friday",
                 "saturday", "sunday">>

DayOf(t) == t \div TicksPerDay
StartOfDay(d) == d * TicksPerDay
\* datetime.combine(today, time(23, 59, 59))
EndOfDay(d) == d * TicksPerDay + (TicksPerDay - 2)
\* datetime.combine(today, due_time)
Combine(d, due_time) == d * TicksPerDay + due_time
\* DATE_TRUNC('week', d): the Monday of d's ISO week
WeekStart(d) == d - (d % 7)
WeekdayName(d) == weekday_map[(d % 7) + 1]

today == DayOf(now)

-----------------------------------------------------------------------------
\* Rows and queries

UserRow(role, parent_id, balance) ==
    [role |-> role, parent_id |-> parent_id, balance |-> balance]

NoUser == UserRow("none", NoParent, 0)

TaskRow(task_id, type, reward, due_time, due_day, custom_due_date, created_by) ==
    [task_id |-> task_id, type |-> type, reward |-> reward, due_time |-> due_time,
     due_day |-> due_day, custom_due_date |-> custom_due_date,
     created_by |-> created_by, is_active |-> TRUE]

\* INSERT INTO assigned_tasks (task_id, child_id, assigned_date, due_date,
\* is_completed) VALUES (.., .., CURRENT_DATE, .., FALSE)
\* the row inserted as completed
NewAssignment_completed(assignment_id, task_id, child_id, due_date) ==
    [assignment_id |-> assignment_id, task_id |-> task_id, child_id |-> child_id,
     assigned_date |-> today, due_date |-> due_date, is_completed |-> TRUE,
     completed_at |-> now, reward_received |-> 0]

NewAssignment(assignment_id, task_id, child_id, due_date) ==
    [assignment_id |-> assignment_id, task_id |-> task_id, child_id |-> child_id,
     assigned_date |-> today, due_date |-> due_date, is_completed |-> FALSE,
     completed_at |-> NULL, reward_received |-> NULL]

\* a ledger row that stores the amount without its sign
Transaction_unsigned(child_id, amount, type) ==
    [child_id |-> child_id, amount |-> IF amount < 0 THEN 0 - amount ELSE amount,
     type |-> type]

Transaction(child_id, amount, type) ==
    [child_id |-> child_id, amount |-> amount, type |-> type]

\* the answer of a handler: date is the day a sweep ran for (its local today),
\* order the entries of the list of handle_tasks from the first to the last
Out(op, user, res, assignment_id, amount, notes) ==
    [op |-> op, user |-> user, res |-> res, assignment_id |-> assignment_id,
     amount |-> amount, notes |-> notes, date |-> NULL, order |-> <<>>]

Note(to, kind, listed) == [to |-> to, kind |-> kind, tasks |-> listed]

TaskOf(task_id) == CHOOSE t \in tasks : t.task_id = task_id

\* the check that lets every user through
is_admin_any(user_id) == TRUE

is_admin(user_id) == users[user_id].role = "admin"

Registered(user_id) == users[user_id].role # "none"

\* UPDATE users SET balance = balance + amount WHERE user_id = ..
AddToBalance(us, user_id, amount) ==
    IF us[user_id].role = "none" THEN us
    ELSE [us EXCEPT ![user_id].balance = @ + amount]

RECURSIVE SumAmounts(_, _)
SumAmounts(txs, child_id) ==
    IF txs = <<>> THEN 0
    ELSE (IF Head(txs).child_id = child_id THEN Head(txs).amount ELSE 0)
         + SumAmounts(Tail(txs), child_id)

CountTx(txs, child_id, type) ==
    Cardinality({i \in 1..Len(txs) : txs[i].child_id = child_id /\ txs[i].type = type})

-----------------------------------------------------------------------------
\* Reward policy and completion guard of handle_complete_task

\* assigned_date.date() != today: the column value is a datetime only when the
\* column is a timestamp; on a date column the call raises AttributeError
\* the guard without the test of assigned_date
CompletionGuard_anyday(task_type, assigned_date, t) ==
    IF task_type = "special" THEN "ok"
    ELSE IF t > EndOfDay(DayOf(t)) /\ task_type = "daily" THEN "expired"
    ELSE "ok"

CompletionGuard(task_type, assigned_date, t) ==
    IF task_type = "special" THEN "ok"
    ELSE IF task_type = "daily" /\ schema.assigned_date = "date" THEN "error"
    ELSE IF task_type = "daily" /\ assigned_date # DayOf(t) THEN "inactive"
    ELSE IF t > EndOfDay(DayOf(t)) /\ task_type = "daily" THEN "expired"
    ELSE "ok"

\* a late completion paid in full
FinalReward_full(task_type, reward, due_date, t) == reward

\* every completion paid as a late one
FinalReward_half(task_type, reward, due_date, t) == reward \div 2

FinalReward(task_type, reward, due_date, t) ==
    IF task_type = "special"
    THEN IF t > due_date THEN reward \div 2 ELSE reward
    ELSE IF t <= due_date THEN reward
         ELSE IF task_type = "daily" /\ t <= EndOfDay(DayOf(t)) THEN reward \div 2
              ELSE reward \div 2

\* SELECT .. FROM assigned_tasks at JOIN tasks t JOIN users u
\* WHERE at.assignment_id = .. AND at.child_id = .. AND at.is_completed = FALSE
\* the query without AND at.is_completed = FALSE
CompletableRows_completed(user_id, assignment_id) ==
    {a \in assigned : /\ a.assignment_id = assignment_id
                      /\ a.child_id = user_id
                      /\ \E t \in tasks : t.task_id = a.task_id
                      /\ Registered(a.child_id)}

CompletableRows(user_id, assignment_id) ==
    {a \in assigned : /\ a.assignment_id = assignment_id
                      /\ a.child_id = user_id
                      /\ a.is_completed = FALSE
                      /\ \E t \in tasks : t.task_id = a.task_id
                      /\ Registered(a.child_id)}

\* UPDATE assigned_tasks SET is_completed = TRUE, completed_at = NOW(),
\* reward_received = .. WHERE assignment_id = ..
\* the UPDATE that sets the flag and the time and leaves reward_received
MarkCompleted_flag(rows, assignment_id, final_reward, at) ==
    {IF a.assignment_id = assignment_id
     THEN [a EXCEPT !.is_completed = TRUE, !.completed_at = at]
     ELSE a : a \in rows}

MarkCompleted(rows, assignment_id, final_reward, at) ==
    {IF a.assignment_id = assignment_id
     THEN [a EXCEPT !.is_completed = TRUE, !.completed_at = at,
                    !.reward_received = final_reward]
     ELSE a : a \in rows}

\* UPDATE assigned_tasks SET is_completed = FALSE, completed_at = NULL,
\* reward_received = NULL WHERE assignment_id = ..
\* the UPDATE that leaves reward_received
MarkReturned_reward(rows, assignment_id) ==
    {IF a.assignment_id = assignment_id
     THEN [a EXCEPT !.is_completed = FALSE, !.completed_at = NULL]
     ELSE a : a \in rows}

MarkReturned(rows, assignment_id) ==
    {IF a.assignment_id = assignment_id
     THEN [a EXCEPT !.is_completed = FALSE, !.completed_at = NULL,
                    !.reward_received = NULL]
     ELSE a : a \in rows}

-----------------------------------------------------------------------------
\* Handlers of the control bot, each one whole request

\* time passes, up to the end of the last day of the run
Tick(days) ==
    /\ now + 1 < StartOfDay(FirstDay + days)
    /\ now' = now + 1
    /\ UNCHANGED <<schema, store, user_temp_data, out, last, pc, loc>>

\* /start that writes the row of a child whether or not the user is known
handle_start_again(user_id) ==
    /\ users' = [users EXCEPT ![user_id] = UserRow("child", NoParent, 0)]
    /\ out' = Out("start", user_id,
                  IF users[user_id].role = "none" THEN "registered" ELSE "known",
                  NULL, users'[user_id].balance, {Note(user_id, "start", {})})
    /\ last' = NoLast
    /\ UNCHANGED <<now, schema, tasks, assigned, transactions, nextTaskId,
                   nextAssignmentId, user_temp_data, pc, loc>>

handle_start(user_id) ==
    /\ users' = IF users[user_id].role = "none"
                THEN [users EXCEPT ![user_id] = UserRow("child", NoParent, 0)]
                ELSE users
    /\ out' = Out("start", user_id,
                  IF users[user_id].role = "none" THEN "registered" ELSE "known",
                  NULL, users'[user_id].balance, {Note(user_id, "start", {})})
    /\ last' = NoLast
    /\ UNCHANGED <<now, schema, tasks, assigned, transactions, nextTaskId,
                   nextAssignmentId, user_temp_data, pc, loc>>

\* handle_tasks: SELECT .. FROM assigned_tasks at JOIN tasks t
\* WHERE at.child_id = .. AND at.is_completed = FALSE
ActiveRows(rows, user_id) ==
    {a \in rows : /\ a.child_id = user_id
                  /\ a.is_completed = FALSE
                  /\ \E t \in tasks : t.task_id = a.task_id}

\* handle_tasks, the loop body: whether the row gets an entry in the message
\* (a daily row of another day and a row past its day are skipped by continue)
Displayed(a) ==
    LET t == TaskOf(a.task_id) IN
    IF t.type = "special" THEN TRUE
    ELSE IF a.assigned_date # today /\ t.type = "daily" THEN FALSE
    ELSE IF a.due_date > now THEN TRUE
    ELSE IF a.assigned_date = today THEN now <= EndOfDay(today)
    ELSE FALSE

\* handle_tasks, the loop body: whether the row gets a complete_<id> button
\* (status_emoji is the cross for a special row whose due day is before today)
\* a button only for the rows not yet due
HasButton_due(a) ==
    /\ Displayed(a)
    /\ a.due_date > now

HasButton(a) ==
    LET t == TaskOf(a.task_id) IN
    /\ Displayed(a)
    /\ t.type = "special" => DayOf(a.due_date) - today >= 0

\* handle_tasks, the message: the entries and the buttons, by assignment_id
TaskList(rows, user_id) ==
    LET active == ActiveRows(rows, user_id) IN
    IF active = {} THEN {}
    ELSE {Note(user_id, "entries", {a.assignment_id : a \in {r \in active : Displayed(r)}}),
          Note(user_id, "buttons", {a.assignment_id : a \in {r \in active : HasButton(r)}})}

\* the order without the overdue rows first
Rank_type(a) ==
    LET t == TaskOf(a.task_id) IN
    IF t.type = "special" THEN 1 ELSE IF t.type = "daily" THEN 2 ELSE 3

\* ORDER BY CASE WHEN at.due_date < NOW() THEN 0 WHEN t.type = 'special' THEN 1
\*               WHEN t.type = 'daily' THEN 2 ELSE 3 END, at.due_date
Rank(a) ==
    LET t == TaskOf(a.task_id) IN
    IF a.due_date < now THEN 0
    ELSE IF t.type = "special" THEN 1 ELSE IF t.type = "daily" THEN 2 ELSE 3

Before(a, b) ==
    \/ Rank(a) < Rank(b)
    \/ Rank(a) = Rank(b) /\ a.due_date <= b.due_date

\* the orders in which the query can return the rows S: rows equal in both keys
\* come in any order
RECURSIVE Orders(_)
Orders(S) ==
    IF S = {} THEN {<<>>}
    ELSE UNION {{<<a>> \o q : q \in Orders(S \ {a})} :
                   a \in {x \in S : \A y \in S : Before(x, y)}}

\* handle_tasks, the loop over the rows in the order of the query: the
\* assignment_id of each entry of the message
ListOrders(rows, user_id) ==
    {LET shown == SelectSeq(q, Displayed)
     IN  [i \in 1..Len(shown) |-> shown[i].assignment_id] :
        q \in Orders(ActiveRows(rows, user_id))}

\* handle_tasks(chat_id, user_id): the child's active list
handle_tasks(user_id) ==
    /\ \E q \in (IF is_admin(user_id) THEN {<<>>} ELSE ListOrders(assigned, user_id)) :
          out' = IF is_admin(user_id)
                 THEN Out("tasks", user_id, "not_child", NULL, 0, {})
                 ELSE IF ActiveRows(assigned, user_id) = {}
                 THEN Out("tasks", user_id, "none", NULL, 0, {})
                 ELSE [Out("tasks", user_id, "ok", NULL, 0, TaskList(assigned, user_id))
                       EXCEPT !.order = q]
    /\ last' = NoLast
    /\ UNCHANGED <<now, schema, store, user_temp_data, pc, loc>>

\* handle_complete_task(chat_id, user_id, assignment_id, callback_id); it ends
\* with handle_tasks(chat_id, user_id), the list after the completion
handle_complete_task(user_id, assignment_id) ==
    LET rows == CompletableRows(user_id, assignment_id) IN
    IF rows = {}
    THEN /\ out' = Out("complete", user_id, "not_found", assignment_id, 0, {})
         /\ last' = NoLast
         /\ UNCHANGED <<now, schema, store, user_temp_data, pc, loc>>
    ELSE
    LET a == CHOOSE r \in rows : TRUE
        t == TaskOf(a.task_id)
        guard == CompletionGuard(t.type, a.assigned_date, now)
        final_reward == FinalReward(t.type, t.reward, a.due_date, now)
    IN  IF guard # "ok"
        THEN /\ out' = Out("complete", user_id, guard, assignment_id, 0, {})
             /\ last' = NoLast
             /\ UNCHANGED <<now, schema, store, user_temp_data, pc, loc>>
        ELSE /\ Len(transactions) < MaxTx
             /\ assigned' = MarkCompleted(assigned, assignment_id, final_reward, now)
             /\ users' = AddToBalance(users, user_id, final_reward)
             /\ transactions' = Append(transactions,
                                       Transaction(user_id, final_reward, "task_reward"))
             /\ out' = Out("complete", user_id, "ok", assignment_id, final_reward,
                           {Note(user_id, "balance", {a.task_id}),
                            Note(t.created_by, "return_button", {a.task_id})}
                           \cup TaskList(assigned', user_id))
             /\ last' = [assignment_id |-> assignment_id,
                         balance |-> users[user_id].balance]
             /\ UNCHANGED <<now, schema, tasks, nextTaskId, nextAssignmentId,
                            user_temp_data, pc, loc>>

\* SELECT .. WHERE at.assignment_id = .. AND at.is_completed = TRUE
\* AND t.created_by = ..
\* the query without AND t.created_by = ..
ReturnableRows_any_admin(user_id, assignment_id) ==
    {a \in assigned : /\ a.assignment_id = assignment_id
                      /\ a.is_completed = TRUE
                      /\ \E t \in tasks : t.task_id = a.task_id
                      /\ Registered(a.child_id)}

ReturnableRows(user_id, assignment_id) ==
    {a \in assigned : /\ a.assignment_id = assignment_id
                      /\ a.is_completed = TRUE
                      /\ \E t \in tasks : t.task_id = a.task_id /\ t.created_by = user_id
                      /\ Registered(a.child_id)}

handle_return_task(user_id, assignment_id) ==
    LET rows == ReturnableRows(user_id, assignment_id) IN
    IF ~is_admin(user_id)
    THEN /\ out' = Out("return", user_id, "not_admin", assignment_id, 0, {})
         /\ last' = NoLast
         /\ UNCHANGED <<now, schema, store, user_temp_data, pc, loc>>
    ELSE IF rows = {}
    THEN /\ out' = Out("return", user_id, "not_found", assignment_id, 0, {})
         /\ last' = NoLast
         /\ UNCHANGED <<now, schema, store, user_temp_data, pc, loc>>
    ELSE
    LET a == CHOOSE r \in rows : TRUE IN
        IF a.reward_received = NULL \/ a.reward_received <= 0
        THEN /\ out' = Out("return", user_id, "no_reward", assignment_id, 0, {})
             /\ last' = NoLast
             /\ UNCHANGED <<now, schema, store, user_temp_data, pc, loc>>
        ELSE /\ Len(transactions) < MaxTx
             /\ assigned' = MarkReturned(assigned, assignment_id)
             /\ users' = AddToBalance(users, a.child_id, 0 - a.reward_received)
             /\ transactions' = Append(transactions,
                    Transaction(a.child_id, 0 - a.reward_received, "task_return"))
             /\ out' = Out("return", user_id, "ok", assignment_id, a.reward_received,
                           {Note(user_id, "returned", {a.task_id}),
                            Note(a.child_id, "returned", {a.task_id})})
             /\ last' = IF last.assignment_id = assignment_id THEN last ELSE NoLast
             /\ UNCHANGED <<now, schema, tasks, nextTaskId, nextAssignmentId,
                            user_temp_data, pc, loc>>

-----------------------------------------------------------------------------
\* Assigning daily and weekly tasks

\* rows of a query in key order
RECURSIVE TaskSeq(_)
TaskSeq(S) ==
    IF S = {} THEN <<>>
    ELSE LET t == CHOOSE x \in S : \A y \in S : x.task_id <= y.task_id
         IN <<t>> \o TaskSeq(S \ {t})

\* SELECT user_id .. FROM users WHERE role = 'child'
\* AND (parent_id = admin_id OR parent_id IS NULL)
ChildrenOf(admin_id) ==
    SelectSeq(UserOrder, LAMBDA u : /\ users[u].role = "child"
                                    /\ users[u].parent_id \in {admin_id, NoParent})

\* the query without AND is_active = TRUE
ActiveTasks_all(type, admin_id) ==
    {t \in tasks : t.type = type /\ t.created_by = admin_id}

\* SELECT task_id .. FROM tasks WHERE type = .. AND is_active = TRUE AND created_by = ..
ActiveTasks(type, admin_id) ==
    {t \in tasks : t.type = type /\ t.is_active /\ t.created_by = admin_id}

\* SELECT assignment_id FROM assigned_tasks WHERE task_id = .. AND child_id = ..
\* AND assigned_date = CURRENT_DATE
\* the check on the wrong column: due_date is an instant, never equal to a date
AssignedToday_due_date(rows, task_id, child_id) ==
    \E a \in rows : /\ a.task_id = task_id
                    /\ a.child_id = child_id
                    /\ a.due_date = today

AssignedToday(rows, task_id, child_id) ==
    \E a \in rows : /\ a.task_id = task_id
                    /\ a.child_id = child_id
                    /\ a.assigned_date = today

\* the check that counts only the rows still open
AssignedThisWeek_open(rows, task_id, child_id) ==
    \E a \in rows : /\ a.task_id = task_id
                    /\ a.child_id = child_id
                    /\ a.is_completed = FALSE
                    /\ a.assigned_date >= WeekStart(today)
                    /\ a.assigned_date < WeekStart(today) + 7

\* .. AND assigned_date >= DATE_TRUNC('week', CURRENT_DATE)
\*    AND assigned_date < DATE_TRUNC('week', CURRENT_DATE) + INTERVAL '1 week'
AssignedThisWeek(rows, task_id, child_id) ==
    \E a \in rows : /\ a.task_id = task_id
                    /\ a.child_id = child_id
                    /\ a.assigned_date >= WeekStart(today)
                    /\ a.assigned_date < WeekStart(today) + 7

Exists(period, rows, task_id, child_id) ==
    IF period = "day" THEN AssignedToday(rows, task_id, child_id)
    ELSE AssignedThisWeek(rows, task_id, child_id)

\* the running state of one sweep: the table, the serial, the counters, the messages
\* results: admin_results / task_results, the count of each admin
Sweep(rows, next, count, created, notes) ==
    [assigned |-> rows, next |-> next, count |-> count, created |-> created,
     notes |-> notes, results |-> {}]

\* the inner loop over the tasks, for one child: check, then insert
RECURSIVE AssignTasks(_, _, _, _)
AssignTasks(period, child_id, todo, st) ==
    IF todo = <<>> THEN st
    ELSE LET t == Head(todo)
             due_date == Combine(today, t.due_time)
             st2 == IF ~Exists(period, st.assigned, t.task_id, child_id)
                    THEN [st EXCEPT
                            !.assigned = @ \cup
                                {NewAssignment(st.next, t.task_id, child_id, due_date)},
                            !.next = @ + 1,
                            !.count = @ + 1,
                            !.created = @ \cup {t.task_id}]
                    ELSE st
         IN AssignTasks(period, child_id, Tail(todo), st2)

\* the outer loop over the children; listed(created) is what the child's message lists
RECURSIVE AssignChildren(_, _, _, _, _)
AssignChildren(period, kids, todo, all_listed, st) ==
    IF kids = <<>> THEN st
    ELSE LET child_id == Head(kids)
             st1 == AssignTasks(period, child_id, todo, [st EXCEPT !.created = {}])
             listed == IF all_listed THEN {todo[i].task_id : i \in 1..Len(todo)}
                       ELSE st1.created
             st2 == IF st1.count > st.count
                    THEN [st1 EXCEPT !.notes = @ \cup {Note(child_id, "new_tasks", listed)}]
                    ELSE st1
         IN AssignChildren(period, Tail(kids), todo, all_listed, st2)

\* TaskScheduler._assign_admin_daily_tasks: the child is told all of daily_tasks
assign_admin_daily_tasks(admin_id, st) ==
    LET daily_tasks == TaskSeq(ActiveTasks("daily", admin_id))
        children == ChildrenOf(admin_id)
    IN  IF daily_tasks = <<>> \/ children = <<>> THEN st
        ELSE AssignChildren("day", children, daily_tasks, TRUE, st)

\* TaskScheduler._assign_admin_weekly_tasks: the child is told child_tasks
assign_admin_weekly_tasks(admin_id, weekly, st) ==
    LET children == ChildrenOf(admin_id)
    IN  IF children = <<>> THEN st
        ELSE AssignChildren("week", children, TaskSeq(weekly), FALSE, st)

\* the loop over the admins
RECURSIVE AssignAdmins(_, _, _)
AssignAdmins(type, admins, st) ==
    IF admins = <<>> THEN st
    ELSE LET admin_id == Head(admins)
             st1 == IF type = "daily"
                    THEN assign_admin_daily_tasks(admin_id, st)
                    ELSE assign_admin_weekly_tasks(admin_id,
                             {t \in ActiveTasks("weekly", admin_id) :
                                  t.due_day = WeekdayName(today)}, st)
             st2 == [st1 EXCEPT !.results = @ \cup
                        {[admin_id |-> admin_id, assigned |-> st1.count - st.count]}]
         IN AssignAdmins(type, Tail(admins), st2)

\* TaskScheduler._notify_admins_about_assignment: a report to each entry whose
\* 'tasks_assigned' is > 0.  The daily entries carry 'admin_id' and
\* 'tasks_assigned'; the weekly entries carry neither key ('total_assigned'
\* instead), so admin_data.get('tasks_assigned', 0) is 0 for them.
notify_admins_about_assignment(results, type) ==
    {Note(r.admin_id, "report", {}) :
        r \in {x \in results : (IF type = "daily" THEN x.assigned ELSE 0) > 0}}

\* SELECT DISTINCT t.created_by .. FROM tasks t JOIN users u ON t.created_by = u.user_id
\* WHERE t.type = .. AND t.is_active = TRUE AND u.role = 'admin'
SweepAdmins(type) ==
    SelectSeq(UserOrder, LAMBDA u :
        /\ users[u].role = "admin"
        /\ \E t \in ActiveTasks(type, u) :
               type = "weekly" => t.due_day = WeekdayName(today))

RunSweep(type) ==
    AssignAdmins(type, SweepAdmins(type), Sweep(assigned, nextAssignmentId, 0, {}, {}))

\* TaskScheduler.assign_daily_tasks / TaskScheduler.assign_weekly_tasks
TaskScheduler_assign(type) ==
    LET st == RunSweep(type) IN
    /\ Cardinality(st.assigned) <= MaxAssigned
    /\ assigned' = st.assigned
    /\ nextAssignmentId' = st.next
    /\ out' = [Out(type, "cron", "ok", NULL, st.count,
                   st.notes \cup notify_admins_about_assignment(st.results, type))
               EXCEPT !.date = today]
    /\ last' = NoLast
    /\ UNCHANGED <<now, schema, users, tasks, transactions, nextTaskId,
                   user_temp_data, pc, loc>>

\* bot.assign_daily_tasks behind handle_admin_callback('admin_assign_daily')
assign_daily_tasks(user_id) ==
    LET daily_tasks == TaskSeq(ActiveTasks("daily", user_id))
        children == ChildrenOf(user_id)
        st == AssignChildren("day", children, daily_tasks, TRUE,
                             Sweep(assigned, nextAssignmentId, 0, {}, {}))
    IN  IF ~is_admin(user_id)
        THEN /\ out' = Out("assign_daily", user_id, "not_admin", NULL, 0, {})
             /\ last' = NoLast
             /\ UNCHANGED <<now, schema, store, user_temp_data, pc, loc>>
        ELSE IF daily_tasks = <<>> \/ children = <<>>
        THEN /\ out' = Out("assign_daily", user_id, "nothing", NULL, 0, {})
             /\ last' = NoLast
             /\ UNCHANGED <<now, schema, store, user_temp_data, pc, loc>>
        ELSE /\ Cardinality(st.assigned) <= MaxAssigned
             /\ assigned' = st.assigned
             /\ nextAssignmentId' = st.next
             /\ out' = Out("assign_daily", user_id, "ok", NULL, st.count, {})
             /\ last' = NoLast
             /\ UNCHANGED <<now, schema, users, tasks, transactions, nextTaskId,
                            user_temp_data, pc, loc>>

-----------------------------------------------------------------------------
\* Manual balance adjustment

\* add_balance(child_id, amount, description): the new users and transactions
add_balance(child_id, amount) ==
    [ok |-> TRUE,
     users |-> AddToBalance(users, child_id, amount),
     transactions |-> Append(transactions, Transaction(child_id, amount, "manual_add"))]

\* remove_balance(child_id, amount, description)
\* the removal without the test of the balance
remove_balance_unchecked(child_id, amount) ==
    [ok |-> TRUE,
     users |-> AddToBalance(users, child_id, 0 - amount),
     transactions |-> Append(transactions,
                             Transaction(child_id, 0 - amount, "manual_remove"))]

remove_balance(child_id, amount) ==
    IF users[child_id].balance < amount
    THEN [ok |-> FALSE, users |-> users, transactions |-> transactions]
    ELSE [ok |-> TRUE,
          users |-> AddToBalance(users, child_id, 0 - amount),
          transactions |-> Append(transactions,
                                  Transaction(child_id, 0 - amount, "manual_remove"))]

\* handle_balance_callback: 'balance_add' -> start_add_balance,
\* 'balance_remove' -> start_remove_balance; the other data ('balance_back',
\* 'rewards_settings', ..) show a menu or a list, and data without a branch
\* ('balance_cancel') does nothing: the session stays as it is
handle_balance_callback(user_id, data) ==
    /\ IF ~is_admin(user_id)
       THEN /\ out' = Out(data, user_id, "not_admin", NULL, 0, {})
            /\ UNCHANGED user_temp_data
       ELSE IF data \notin {"balance_add", "balance_remove"}
       THEN /\ out' = Out(data, user_id, "ok", NULL, 0, {})
            /\ UNCHANGED user_temp_data
       ELSE /\ user_temp_data' =
                  [user_temp_data EXCEPT ![user_id] =
                      [BlankSession EXCEPT
                          !.action = IF data = "balance_add" THEN "add_balance"
                                     ELSE "remove_balance",
                          !.step = "select_child"]]
            /\ out' = Out(data, user_id, "ok", NULL, 0, {})
    /\ last' = NoLast
    /\ UNCHANGED <<now, schema, store, pc, loc>>

\* handle_child_selection with data = 'child_<child_id>', or 'balance_cancel'
handle_child_selection(user_id, child_id) ==
    /\ IF ~is_admin(user_id)
       THEN /\ out' = Out("child", user_id, "not_admin", NULL, 0, {})
            /\ UNCHANGED user_temp_data
       ELSE IF child_id = "balance_cancel"
       THEN /\ out' = Out("child", user_id, "cancelled", NULL, 0, {})
            /\ user_temp_data' = [user_temp_data EXCEPT ![user_id] = NoSession]
       ELSE IF ~user_temp_data[user_id].present
       THEN /\ out' = Out("child", user_id, "expired", NULL, 0, {})
            /\ UNCHANGED user_temp_data
       ELSE /\ user_temp_data' =
                  [user_temp_data EXCEPT ![user_id].child_id = child_id,
                                         ![user_id].step = "enter_amount"]
            /\ out' = Out("child", user_id,
                          IF user_temp_data[user_id].action = "NULL" THEN "error" ELSE "ok",
                          NULL, 0, {})
    /\ last' = NoLast
    /\ UNCHANGED <<now, schema, store, pc, loc>>

\* the text of a message: what the handler can parse it as
Text(kind, val) == [kind |-> kind, val |-> val]

\* handle_user_input, the branch 'action' in user_data and step == 'enter_amount'
handle_user_input_amount(user_id, text) ==
    LET user_data == user_temp_data[user_id]
        r == IF user_data.action = "add_balance"
             THEN add_balance(user_data.child_id, text.val)
             ELSE remove_balance(user_data.child_id, text.val)
    IN  IF text.kind # "number"
        THEN /\ out' = Out("input", user_id, "not_a_number", NULL, 0, {})
             /\ UNCHANGED <<store, user_temp_data>>
        ELSE IF text.val <= 0
        THEN /\ out' = Out("input", user_id, "not_positive", NULL, 0, {})
             /\ UNCHANGED <<store, user_temp_data>>
        ELSE /\ r.ok => Len(transactions) < MaxTx
             /\ users' = r.users
             /\ transactions' = r.transactions
             /\ user_temp_data' = [user_temp_data EXCEPT ![user_id] = NoSession]
             /\ out' = Out("input", user_id,
                           IF r.ok THEN user_data.action ELSE "failed", NULL,
                           text.val, {})
             /\ UNCHANGED <<tasks, assigned, nextTaskId, nextAssignmentId>>

-----------------------------------------------------------------------------
\* The end of the task wizard: the task is stored

RECURSIVE SpecialAssignments(_, _, _, _)
SpecialAssignments(task_id, child_ids, due_date, next) ==
    IF child_ids = <<>> THEN {}
    ELSE {NewAssignment(next, task_id, Head(child_ids), due_date)}
         \cup SpecialAssignments(task_id, Tail(child_ids), due_date, next + 1)

\* save_task_to_db(user_id, assign_to_children, child_ids), task_data being
\* user_temp_data[user_id]: the tables after it.  A key the INSERT needs and the
\* session lacks raises KeyError: rollback, False
save_task_to_db(task_data, assign_to_children, child_ids) ==
    LET task_id == nextTaskId
        row == TaskRow(task_id, task_data.type, task_data.reward, task_data.due_time,
                       task_data.due_day, task_data.custom_due_date,
                       task_data.created_by)
        new == IF task_data.type = "special" /\ assign_to_children
               THEN SpecialAssignments(task_id, child_ids, task_data.custom_due_date,
                                       nextAssignmentId)
               ELSE {}
    IN  IF \/ ~task_data.present
           \/ ~task_data.title
           \/ task_data.type = "NULL"
           \/ task_data.reward = NULL
           \/ task_data.created_by = "NULL"
        THEN [ok |-> FALSE, tasks |-> tasks, assigned |-> assigned,
              nextTaskId |-> nextTaskId, nextAssignmentId |-> nextAssignmentId]
        ELSE [ok |-> TRUE, tasks |-> tasks \cup {row}, assigned |-> assigned \cup new,
              nextTaskId |-> nextTaskId + 1,
              nextAssignmentId |-> nextAssignmentId + Cardinality(new)]

\* what follows save_task_to_db(..) in its callers: on success the session is
\* deleted and the children named in told get the message about the new task
Save(op, user_id, task_data, assign_to_children, child_ids, told) ==
    LET r == save_task_to_db(task_data, assign_to_children, child_ids) IN
    /\ Cardinality(r.assigned) <= MaxAssigned
    /\ tasks' = r.tasks
    /\ assigned' = r.assigned
    /\ nextTaskId' = r.nextTaskId
    /\ nextAssignmentId' = r.nextAssignmentId
    /\ user_temp_data' = [user_temp_data EXCEPT ![user_id] =
                             IF r.ok THEN NoSession ELSE task_data]
    /\ out' = Out(op, user_id, IF r.ok THEN "created" ELSE "failed", NULL,
                  Cardinality(r.assigned \ assigned),
                  IF r.ok
                  THEN {Note(told[i], "special_task", {nextTaskId}) : i \in 1..Len(told)}
                  ELSE {})
    /\ UNCHANGED <<users, transactions>>

DefaultDailyReward == 10
DefaultWeeklyReward == 50

\* handle_user_input past the balance branch: the steps of task creation
handle_user_input_task(user_id, text) ==
    LET user_data == user_temp_data[user_id]
        step == user_data.step
        children == ChildrenOf(user_id)
        keep(res) == /\ out' = Out("input", user_id, res, NULL, 0, {})
                     /\ UNCHANGED <<store, user_temp_data>>
        goto(data) == /\ user_temp_data' = [user_temp_data EXCEPT ![user_id] = data]
                      /\ out' = Out("input", user_id, data.step, NULL, 0, {})
                      /\ UNCHANGED store
    IN
       CASE step = "title" ->
              goto([user_data EXCEPT !.title = TRUE, !.step = "description"])
         [] step = "description" ->
              IF user_data.type = "special"
              THEN goto([user_data EXCEPT !.step = "special_reward"])
              ELSE IF user_data.type = "daily"
              THEN goto([user_data EXCEPT !.reward = DefaultDailyReward,
                                          !.step = "due_time"])
              ELSE IF user_data.type = "weekly"
              THEN goto([user_data EXCEPT !.reward = DefaultWeeklyReward,
                                          !.step = "due_day"])
              ELSE keep("error")
         [] step = "special_reward" ->
              IF text.kind = "number" /\ text.val > 0
              THEN goto([user_data EXCEPT !.reward = text.val,
                                          !.step = "custom_due_date"])
              ELSE keep("not_positive")
         [] step = "due_time" ->
              IF text.kind # "time" THEN keep("bad_time")
              ELSE Save("input", user_id, [user_data EXCEPT !.due_time = text.val],
                        TRUE, <<>>, <<>>)
         [] step = "custom_due_date" ->
              IF text.kind # "datetime" THEN keep("bad_date")
              ELSE IF text.val <= now THEN keep("not_future")
              ELSE LET data == [user_data EXCEPT !.custom_due_date = text.val] IN
                   IF Len(children) = 0
                   THEN Save("input", user_id, data, FALSE, <<>>, <<>>)
                   ELSE IF Len(children) = 1
                   THEN Save("input", user_id, data, TRUE, children, children)
                   ELSE goto([data EXCEPT !.step = "select_children"])
         [] OTHER -> keep("ignored")

\* list.remove(x) / list.append(x)
\* a removal that leaves the list as it is
RemoveFrom_keep(seq, x) == seq

\* list.remove(x): the list without the first x
RemoveFrom(seq, x) ==
    LET i == CHOOSE k \in 1..Len(seq) : seq[k] = x /\ \A j \in 1..(k - 1) : seq[j] # x
    IN  SubSeq(seq, 1, i - 1) \o SubSeq(seq, i + 1, Len(seq))
InSeq(seq, x) == \E i \in 1..Len(seq) : seq[i] = x

\* handle_special_child_selection; data is the callback data after 'special_'
handle_special_child_selection(user_id, data) ==
    LET user_data == user_temp_data[user_id]
        children == ChildrenOf(user_id)
        select(ids, res) ==
            /\ user_temp_data' = [user_temp_data EXCEPT
                                     ![user_id].selected_children = ids]
            /\ out' = Out("special_child", user_id, res, NULL, Len(ids), {})
            /\ UNCHANGED store
    IN
    /\ last' = NoLast
    /\ UNCHANGED <<now, schema, pc, loc>>
    /\ IF ~user_data.present
       THEN /\ out' = Out("special_child", user_id, "expired", NULL, 0, {})
            /\ UNCHANGED <<store, user_temp_data>>
       ELSE CASE data = "child_all" -> select(children, "all")
              [] data = "child_none" -> select(<<>>, "none")
              [] data = "confirm" ->
                   Save("special_child", user_id, user_data, TRUE,
                        user_data.selected_children, user_data.selected_children)
              [] data = "confirm_none" ->
                   Save("special_child", user_id, user_data, FALSE, <<>>, <<>>)
              [] data = "reset" -> select(<<>>, "reset")
              [] OTHER ->
                   IF InSeq(user_data.selected_children, data)
                   THEN select(RemoveFrom(user_data.selected_children, data), "removed")
                   ELSE select(Append(user_data.selected_children, data), "added")

\* process_message with a text that is no command: handle_user_input for a user
\* with a session, the answer "unknown command" for a user without one
handle_user_input(user_id, text) ==
    /\ last' = NoLast
    /\ UNCHANGED <<now, schema, pc, loc>>
    /\ IF ~user_temp_data[user_id].present
       THEN /\ out' = Out("input", user_id, "unknown_command", NULL, 0, {})
            /\ UNCHANGED <<store, user_temp_data>>
       ELSE IF /\ user_temp_data[user_id].action # "NULL"
               /\ user_temp_data[user_id].step = "enter_amount"
       THEN handle_user_input_amount(user_id, text)
       ELSE handle_user_input_task(user_id, text)

-----------------------------------------------------------------------------
\* The store at the start: the admins a1 and a2, child c1 who registered with
\* /start (no parent: a child of every admin), child c2 whom the operator gave to
\* a2, a user c3 not yet registered, no task yet; admin a1 is at the last question
\* of the task wizard

SpecialRewards == {1, 7}
DueDays == {"saturday", "sunday"}

Draft(user_id, type, reward, due_day) ==
    [BlankSession EXCEPT !.created_by = user_id, !.title = TRUE, !.type = type,
                         !.reward = reward, !.due_day = due_day,
                         !.step = IF type = "special" THEN "custom_due_date"
                                  ELSE "due_time"]

Drafts(user_id) ==
    {Draft(user_id, "daily", DefaultDailyReward, "NULL")}
    \cup {Draft(user_id, "weekly", DefaultWeeklyReward, d) : d \in DueDays}
    \cup {Draft(user_id, "special", r, "NULL") : r \in SpecialRewards}

Texts ==
    {Text("time", 1), Text("datetime", Combine(FirstDay, 1)),
     Text("number", 6), Text("number", 0), Text("word", 0)}

InitUsers ==
    [u \in UserIds |->
        IF u \in Admins THEN UserRow("admin", NoParent, 0)
        ELSE IF u = "c1" THEN UserRow("child", NoParent, 0)
        ELSE IF u = "c2" THEN UserRow("child", "a2", 0)
        ELSE NoUser]

NoOut == Out("none", "NULL", "ok", NULL, 0, {})

\* what schema.sql can say of the foreign key assigned_tasks.task_id -> tasks:
\* ON DELETE CASCADE, a key without it, or no key
ForeignKeys == {"cascade", "restrict", "none"}

\* the start of a run with the users us and a foreign key of fks
StartWith(us, fks) ==
    /\ now = StartOfDay(FirstDay)
    /\ schema \in [assigned_date : {"date", "timestamp"}, on_delete : fks]
    /\ users = us
    /\ tasks = {}
    /\ assigned = {}
    /\ transactions = <<>>
    /\ nextTaskId = 1
    /\ nextAssignmentId = 1
    /\ \E d \in Drafts("a1") :
           user_temp_data = [u \in UserIds |-> IF u = "a1" THEN d ELSE NoSession]
    /\ out = NoOut
    /\ last = NoLast
    /\ pc = [r \in Requests |-> "idle"]
    /\ loc = [r \in Requests |-> NoLoc]

\* the start of a run in which no task is deleted: nothing reads on_delete
Start(us) == StartWith(us, {"cascade"})

Init == Start(InitUsers)

AssignmentIds == 1..nextAssignmentId

\* The reward and the life of an assignment: admin a1 stores the task, the sweeps
\* assign it, the children complete, a1 takes back, the child looks at the list
Next ==
    \/ Tick(Horizon)
    \/ \E text \in Texts : handle_user_input("a1", text)
    \/ \E type \in {"daily", "weekly"} : TaskScheduler_assign(type)
    \/ \E u \in {"c1", "c2"}, aid \in AssignmentIds : handle_complete_task(u, aid)
    \/ \E u \in Admins \cup {"c1"}, aid \in AssignmentIds : handle_return_task(u, aid)
    \/ handle_tasks("c1")

Spec == Init /\ [][Next]_vars

-----------------------------------------------------------------------------
\* Scheduling: c1 and c2 have both registered with /start, so both are children of
\* a1; a1 stores the task, the sweeps and a1 by hand assign it, c1 completes, a1
\* takes back

InitSched == Start([InitUsers EXCEPT !["c2"] = UserRow("child", NoParent, 0)])

NextSched ==
    \/ Tick(Horizon)
    \/ \E text \in Texts : handle_user_input("a1", text)
    \/ \E data \in {"child_all", "c1", "confirm"} :
           /\ user_temp_data["a1"].step = "select_children"
           /\ handle_special_child_selection("a1", data)
    \/ \E type \in {"daily", "weekly"} : TaskScheduler_assign(type)
    \/ \E u \in {"a1", "c1"} : assign_daily_tasks(u)
    \/ \E aid \in AssignmentIds : handle_complete_task("c1", aid)
    \/ \E aid \in AssignmentIds : handle_return_task("a1", aid)

SpecSched == InitSched /\ [][NextSched]_vars

\* the period of a row of a task of the given type
SamePeriod(type, a, b) ==
    CASE type = "daily" -> a.assigned_date = b.assigned_date
      [] type = "weekly" -> WeekStart(a.assigned_date) = WeekStart(b.assigned_date)
      [] OTHER -> TRUE

\* C6: no two assignments of one task to one child lie in the same period: the
\* same day for a daily task, the same ISO week for a weekly task, ever for a
\* special task; a completed assignment counts like an open one
C6_OnePerPeriod ==
    \A a \in assigned : \A b \in assigned :
        (/\ a.assignment_id # b.assignment_id
         /\ a.task_id = b.task_id
         /\ a.child_id = b.child_id)
        => ~SamePeriod(TaskOf(a.task_id).type, a, b)

\* a weekly sweep has just run after c1 completed this week's assignment, and c1
\* still has the one assignment
C6_Witness ==
    /\ out.op = "weekly" /\ out.date = today
    /\ \E a \in assigned : /\ a.child_id = "c1"
                            /\ a.is_completed
                            /\ a.assigned_date = today
                            /\ TaskOf(a.task_id).type = "weekly"
    /\ Cardinality({a \in assigned : a.child_id = "c1"}) = 1

\* the sweep of the type runs now, and the handler before it was a sweep of the
\* same type, so that no task, user or assignment changed in between
SecondRun(type) ==
    /\ out.op = type /\ out.res = "ok"
    /\ TaskScheduler_assign(type)

NothingNew ==
    /\ assigned' = assigned
    /\ out'.amount = 0
    /\ out'.notes = {}

\* C7 as stated: a second run of a sweep in the same day (daily) or the same ISO
\* week (weekly) creates no assignment, returns 0 and sends no message
C7_SecondRunSameDayOrWeek ==
    [][/\ (SecondRun("daily") /\ out.date = today) => NothingNew
       /\ (SecondRun("weekly") /\ WeekStart(out.date) = WeekStart(today))
          => NothingNew]_vars

\* C7, amended: a second run of a sweep on the same calendar day creates no
\* assignment, returns 0 and sends no child notification and no admin summary
C7_SecondRunSameDay ==
    [][\A type \in {"daily", "weekly"} :
          (SecondRun(type) /\ out.date = today) => NothingNew]_vars

\* a daily sweep that assigned to both children was run again on the same day
C7_Witness ==
    /\ out.op = "daily" /\ out.res = "ok" /\ out.amount = 0 /\ out.date = today
    /\ Cardinality({a \in assigned : a.assigned_date = today}) = 2

-----------------------------------------------------------------------------
\* Two completion requests at once.  Each request is its own connection and
\* transaction (psycopg2, READ COMMITTED): its SELECT sees what is committed, its
\* first UPDATE waits while another transaction holds a write on the same row
\* and then runs on the committed row, its writes show at its commit.

\* handle_complete_task up to the writes: the SELECT, the guard, the reward
complete_select(r, user_id, assignment_id) ==
    LET rows == CompletableRows(user_id, assignment_id)
        a == CHOOSE x \in rows : TRUE
        t == TaskOf(a.task_id)
        guard == CompletionGuard(t.type, a.assigned_date, now)
    IN
    /\ pc[r] = "idle"
    /\ Len(transactions) + Cardinality({q \in Requests : pc[q] # "idle"}) < MaxTx
    /\ IF rows = {}
       THEN /\ out' = Out("complete", user_id, "not_found", assignment_id, 0, {})
            /\ UNCHANGED <<pc, loc>>
       ELSE IF guard # "ok"
       THEN /\ out' = Out("complete", user_id, guard, assignment_id, 0, {})
            /\ UNCHANGED <<pc, loc>>
       ELSE /\ pc' = [pc EXCEPT ![r] = "update"]
            /\ loc' = [loc EXCEPT ![r] =
                          [user_id |-> user_id, assignment_id |-> assignment_id,
                           task_id |-> a.task_id, parent_id |-> t.created_by,
                           final_reward |-> FinalReward(t.type, t.reward, a.due_date, now),
                           started |-> now]]
            /\ UNCHANGED out
    /\ UNCHANGED <<now, schema, store, user_temp_data, last>>

\* the UPDATE of assigned_tasks and of users and the INSERT into transactions:
\* they wait for the commit of a request that has written the same rows
complete_update(r) ==
    /\ pc[r] = "update"
    /\ \A q \in Requests \ {r} :
           pc[q] = "commit" => /\ loc[q].assignment_id # loc[r].assignment_id
                               /\ loc[q].user_id # loc[r].user_id
    /\ pc' = [pc EXCEPT ![r] = "commit"]
    /\ UNCHANGED <<now, schema, store, user_temp_data, out, last, loc>>

\* conn.commit() and the messages after it
complete_commit(r) ==
    LET l == loc[r] IN
    /\ pc[r] = "commit"
    /\ assigned' = MarkCompleted(assigned, l.assignment_id, l.final_reward, l.started)
    /\ users' = AddToBalance(users, l.user_id, l.final_reward)
    /\ transactions' = Append(transactions,
                              Transaction(l.user_id, l.final_reward, "task_reward"))
    /\ out' = Out("complete", l.user_id, "ok", l.assignment_id, l.final_reward,
                  {Note(l.user_id, "balance", {l.task_id}),
                   Note(l.parent_id, "return_button", {l.task_id})}
                  \cup TaskList(assigned', l.user_id))
    /\ last' = [assignment_id |-> l.assignment_id, balance |-> users[l.user_id].balance]
    /\ pc' = [pc EXCEPT ![r] = "idle"]
    /\ loc' = [loc EXCEPT ![r] = NoLoc]
    /\ UNCHANGED <<now, schema, tasks, nextTaskId, nextAssignmentId, user_temp_data>>

NextTap ==
    \/ Tick(Horizon)
    \/ \E text \in Texts : handle_user_input("a1", text)
    \/ \E type \in {"daily", "weekly"} : TaskScheduler_assign(type)
    \/ \E r \in Requests, aid \in AssignmentIds : complete_select(r, "c1", aid)
    \/ \E r \in Requests : complete_update(r)
    \/ \E r \in Requests : complete_commit(r)

SpecTap == Init /\ [][NextTap]_vars

RECURSIVE SumRewards(_)
SumRewards(rows) ==
    IF rows = {} THEN 0
    ELSE LET a == CHOOSE x \in rows : TRUE
         IN a.reward_received + SumRewards(rows \ {a})

Completed(child_id) == {a \in assigned : a.child_id = child_id /\ a.is_completed}

\* C1: however two completion requests of a child interleave, every completed
\* assignment has one task_reward ledger entry and one balance increment: the
\* child has as many task_reward entries as completed assignments and the
\* balance is the sum of their reward_received
C1_PaysOnce ==
    \A c \in Children :
        /\ CountTx(transactions, c, "task_reward") = Cardinality(Completed(c))
        /\ users[c].balance = SumRewards(Completed(c))

-----------------------------------------------------------------------------
\* The ledger: a1 is about to store a special task with reward 7; users register,
\* c1 sends completion requests, two at once at most, a1 takes back and adjusts
\* balances by hand; the clock stands

InitLedger ==
    /\ Init
    /\ user_temp_data["a1"].type = "special"
    /\ user_temp_data["a1"].reward = 7
    /\ schema.assigned_date = "timestamp"

NextLedger ==
    \/ \E u \in {"c1", "c3"} : handle_start(u)
    \/ \E text \in Texts : handle_user_input("a1", text)
    \/ \E data \in {"child_all", "confirm"} :
           /\ user_temp_data["a1"].step = "select_children"
           /\ handle_special_child_selection("a1", data)
    \/ \E r \in Requests, aid \in AssignmentIds : complete_select(r, "c1", aid)
    \/ \E r \in Requests : complete_update(r)
    \/ \E r \in Requests : complete_commit(r)
    \/ \E aid \in AssignmentIds : handle_return_task("a1", aid)
    \/ \E data \in {"balance_add", "balance_remove"} : handle_balance_callback("a1", data)
    \/ \E c \in Children : Registered(c) /\ handle_child_selection("a1", c)

SpecLedger == InitLedger /\ [][NextLedger]_vars

\* C2: in every state the balance of every user is the sum of the signed amounts of
\* the user's ledger entries (0, with no entry, for a user who is not registered)
C2_BalanceIsLedgerSum ==
    \A u \in UserIds : users[u].balance = SumAmounts(transactions, u)

\* a child has earned a reward, given it back on a return and had points added and
\* removed by hand
C2_Witness ==
    /\ CountTx(transactions, "c1", "task_reward") >= 1
    /\ \E i \in 1..Len(transactions) : transactions[i].amount < 0
    /\ \E i \in 1..Len(transactions) : transactions[i].type = "manual_add"
    /\ users["c1"].balance > 0

-----------------------------------------------------------------------------
\* Two assigners of daily tasks at once: the scheduler's sweep and the admin's
\* manual assignment, each its own transaction (READ COMMITTED).  The check of a
\* request sees the committed rows and its own; its inserts show at its commit.

\* the loops of one admin, unrolled: for each child, for each daily task
PairsOf(admin_id) ==
    LET kids == ChildrenOf(admin_id)
        todo == TaskSeq(ActiveTasks("daily", admin_id))
    IN  [i \in 1..(Len(kids) * Len(todo)) |->
            [child_id |-> kids[((i - 1) \div Len(todo)) + 1],
             task_id |-> todo[((i - 1) % Len(todo)) + 1].task_id,
             due_date |-> Combine(today, todo[((i - 1) % Len(todo)) + 1].due_time)]]

RECURSIVE PairsOfAll(_)
PairsOfAll(admins) ==
    IF admins = <<>> THEN <<>>
    ELSE PairsOf(Head(admins)) \o PairsOfAll(Tail(admins))

\* the rows other requests have inserted and not yet committed
Uncommitted(r) ==
    UNION {loc[q].pending : q \in {x \in Requests \ {r} : pc[x] \in {"check", "insert", "finish"}}}

\* the queries before the loops.  op "daily": TaskScheduler.assign_daily_tasks,
\* op "assign_daily": bot.assign_daily_tasks of admin user_id
assign_begin(r, op, user_id) ==
    LET todo == IF op = "daily" THEN PairsOfAll(SweepAdmins("daily"))
                ELSE PairsOf(user_id)
    IN
    /\ pc[r] = "idle"
    /\ op = "assign_daily" => is_admin(user_id)
    /\ IF todo = <<>>
       THEN /\ out' = IF op = "daily"
                      THEN [Out(op, user_id, "ok", NULL, 0, {}) EXCEPT !.date = today]
                      ELSE Out(op, user_id, "nothing", NULL, 0, {})
            /\ UNCHANGED <<pc, loc>>
       ELSE /\ pc' = [pc EXCEPT ![r] = "check"]
            /\ loc' = [loc EXCEPT ![r] =
                          [user_id |-> user_id, op |-> op, todo |-> todo,
                           pending |-> {}, date |-> today]]
            /\ UNCHANGED out
    /\ UNCHANGED <<now, schema, store, user_temp_data, last>>

\* SELECT assignment_id FROM assigned_tasks WHERE task_id = .. AND child_id = ..
\* AND assigned_date = CURRENT_DATE, for the pair at the head
assign_check(r) ==
    LET l == loc[r]
        p == Head(l.todo)
    IN
    /\ pc[r] = "check"
    /\ IF AssignedToday(assigned \cup l.pending, p.task_id, p.child_id)
       THEN /\ loc' = [loc EXCEPT ![r].todo = Tail(l.todo)]
            /\ pc' = [pc EXCEPT ![r] = IF Tail(l.todo) = <<>> THEN "finish" ELSE "check"]
       ELSE /\ pc' = [pc EXCEPT ![r] = "insert"]
            /\ UNCHANGED loc
    /\ UNCHANGED <<now, schema, store, user_temp_data, out, last>>

\* INSERT INTO assigned_tasks .. for the pair at the head; the serial is taken at
\* once, the row shows at the commit
assign_insert(r) ==
    LET l == loc[r]
        p == Head(l.todo)
        row == NewAssignment(nextAssignmentId, p.task_id, p.child_id, p.due_date)
    IN
    /\ pc[r] = "insert"
    /\ Cardinality(assigned \cup l.pending \cup Uncommitted(r)) < MaxAssigned
    /\ nextAssignmentId' = nextAssignmentId + 1
    /\ loc' = [loc EXCEPT ![r].pending = @ \cup {row}, ![r].todo = Tail(l.todo)]
    /\ pc' = [pc EXCEPT ![r] = IF Tail(l.todo) = <<>> THEN "finish" ELSE "check"]
    /\ UNCHANGED <<now, schema, users, tasks, assigned, transactions, nextTaskId,
                   user_temp_data, out, last>>

\* conn.commit() and the answer.  The sweep has told each child it assigned to
\* about all the daily tasks and reports to the admin; the manual assignment
\* answers the admin with the count
assign_finish(r) ==
    LET l == loc[r]
        count == Cardinality(l.pending)
        told == {Note(a.child_id, "new_tasks",
                      {t.task_id : t \in ActiveTasks("daily", TaskOf(a.task_id).created_by)})
                 : a \in l.pending}
        reports == {Note(TaskOf(a.task_id).created_by, "report", {}) : a \in l.pending}
    IN
    /\ pc[r] = "finish"
    /\ assigned' = assigned \cup l.pending
    /\ out' = IF l.op = "daily"
              THEN [Out(l.op, l.user_id, "ok", NULL, count, told \cup reports)
                    EXCEPT !.date = l.date]
              ELSE Out(l.op, l.user_id, "ok", NULL, count, {})
    /\ pc' = [pc EXCEPT ![r] = "idle"]
    /\ loc' = [loc EXCEPT ![r] = NoLoc]
    /\ UNCHANGED <<now, schema, users, tasks, transactions, nextTaskId,
                   nextAssignmentId, user_temp_data, last>>

\* a1 is about to store a daily task; c1 and c2 are children of a1
InitAssign ==
    /\ Start([InitUsers EXCEPT !["c2"] = UserRow("child", NoParent, 0)])
    /\ user_temp_data["a1"].type = "daily"

\* a run of an assigner does not last over midnight
NextAssign ==
    \/ (\A r \in Requests : pc[r] = "idle" \/ DayOf(now + 1) = today) /\ Tick(Horizon)
    \/ \E text \in Texts : handle_user_input("a1", text)
    \/ \E r \in Requests : assign_begin(r, "daily", "cron")
    \/ \E r \in Requests : assign_begin(r, "assign_daily", "a1")
    \/ \E r \in Requests : assign_check(r)
    \/ \E r \in Requests : assign_insert(r)
    \/ \E r \in Requests : assign_finish(r)

SpecAssign == InitAssign /\ [][NextAssign]_vars

\* C8: however two assigners of the same day interleave, each check with its
\* insert acts as one atomic check-and-insert: no daily task has two assignments
\* to one child for one day
C8_AtomicCheckAndInsert ==
    \A a \in assigned : \A b \in assigned :
        (/\ a.assignment_id # b.assignment_id
         /\ a.task_id = b.task_id
         /\ a.child_id = b.child_id)
        => a.assigned_date # b.assigned_date

-----------------------------------------------------------------------------
\* Properties of completion and return

RowsOf(rows, assignment_id) == {a \in rows : a.assignment_id = assignment_id}

LastTx(txs) == txs[Len(txs)]

\* the step is a successful completion of row a by its child
Completes(a) ==
    /\ handle_complete_task(a.child_id, a.assignment_id)
    /\ out'.res = "ok"

\* what a completion of row a that pays amount leaves
Paid(a, amount) ==
    /\ \A b \in RowsOf(assigned', a.assignment_id) :
           b.is_completed /\ b.reward_received = amount
    /\ Len(transactions') = Len(transactions) + 1
    /\ LastTx(transactions') = Transaction(a.child_id, amount, "task_reward")
    /\ users'[a.child_id].balance = users[a.child_id].balance + amount

\* C3: a successful completion followed at once by a successful return of the same
\* assignment leaves the row not completed, with completed_at and reward_received
\* null, the balance of the child as it was before the completion, and the two
\* ledger entries of the pair add up to zero
C3_RoundTrip ==
    [][\A u \in Admins : \A a \in assigned :
          (/\ last.assignment_id = a.assignment_id
           /\ handle_return_task(u, a.assignment_id)
           /\ out'.res = "ok")
          => /\ \A b \in RowsOf(assigned', a.assignment_id) :
                    /\ b.is_completed = FALSE
                    /\ b.completed_at = NULL
                    /\ b.reward_received = NULL
             /\ users'[a.child_id].balance = last.balance
             /\ LastTx(transactions).type = "task_reward"
             /\ LastTx(transactions').type = "task_return"
             /\ LastTx(transactions).amount + LastTx(transactions').amount = 0]_vars

\* a completion that paid, then its return, just happened
C3_Witness ==
    /\ out.op = "return" /\ out.res = "ok" /\ out.amount > 0
    /\ last.assignment_id = out.assignment_id
    /\ users["c1"].balance = last.balance

\* C4: a successful completion at now <= due_date, of a daily, weekly or special
\* assignment, pays the nominal reward of the task: reward_received, the amount of
\* the task_reward ledger entry and the balance increment are the nominal reward
C4_OnTimePaysNominal ==
    [][\A a \in assigned :
          (Completes(a) /\ now <= a.due_date) => Paid(a, TaskOf(a.task_id).reward)]_vars

\* a daily assignment was completed on time and paid 10
C4_Witness ==
    /\ out.op = "complete" /\ out.res = "ok" /\ out.amount = DefaultDailyReward
    /\ \E a \in assigned : /\ a.assignment_id = out.assignment_id
                            /\ TaskOf(a.task_id).type = "daily"
                            /\ a.completed_at <= a.due_date
                            /\ a.reward_received = DefaultDailyReward
    /\ users["c1"].balance = DefaultDailyReward

\* C5: a successful completion at now > due_date pays reward // 2, for a special and
\* a weekly assignment however late, for a daily one on its assigned_date (a
\* successful completion of a daily assignment is always on its assigned_date)
C5_LatePaysHalf ==
    [][\A a \in assigned :
          (Completes(a) /\ now > a.due_date)
          => /\ Paid(a, TaskOf(a.task_id).reward \div 2)
             /\ TaskOf(a.task_id).reward = 1 => out'.amount = 0
             /\ TaskOf(a.task_id).type = "daily" => a.assigned_date = today]_vars

\* a special assignment with reward 1 was completed a day late and paid 0
C5_Witness ==
    /\ out.op = "complete" /\ out.res = "ok" /\ out.amount = 0
    /\ \E a \in assigned : /\ a.assignment_id = out.assignment_id
                            /\ TaskOf(a.task_id).type = "special"
                            /\ TaskOf(a.task_id).reward = 1
                            /\ DayOf(a.completed_at) > DayOf(a.due_date)
                            /\ a.reward_received = 0

\* C9: a completion request for an assignment that does not exist, is already
\* completed or belongs to another child is answered not found and changes no
\* row, no balance and no ledger entry
C9_FailedCompletion ==
    [][\A u \in Children : \A aid \in AssignmentIds :
          (/\ handle_complete_task(u, aid)
           /\ \A a \in RowsOf(assigned, aid) : a.is_completed \/ a.child_id # u)
          => /\ out'.res = "not_found"
             /\ UNCHANGED store]_vars

\* the second completion of an assignment, by its child, was just refused
C9_Witness ==
    /\ out.op = "complete" /\ out.res = "not_found"
    /\ \E a \in assigned : /\ a.assignment_id = out.assignment_id
                            /\ a.child_id = out.user
                            /\ a.is_completed
    /\ Len(transactions) = 1

\* C10: a daily assignment whose assigned_date is not today has no entry and no
\* button in the list of its child, and a completion request for it is refused
\* and changes no row, no balance and no ledger entry
C10_StaleDailyVoid ==
    [][\A a \in assigned :
          (TaskOf(a.task_id).type = "daily" /\ a.assigned_date # today)
          => /\ (\/ handle_tasks(a.child_id)
                 \/ \E b \in assigned : b.child_id = a.child_id /\ Completes(b))
                => \A n \in out'.notes :
                       n.kind \in {"entries", "buttons"} => a.assignment_id \notin n.tasks
             /\ handle_complete_task(a.child_id, a.assignment_id)
                => out'.res # "ok" /\ UNCHANGED store]_vars

\* the completion of yesterday's daily assignment, still open, was just refused
C10_Witness ==
    /\ out.op = "complete" /\ out.res = "inactive"
    /\ \E a \in assigned : /\ a.assignment_id = out.assignment_id
                            /\ a.child_id = out.user
                            /\ a.is_completed = FALSE
                            /\ a.assigned_date < today

-----------------------------------------------------------------------------
\* Properties of the completion guard, the return and the balance

\* C11: a completion request for a weekly assignment after 23:59:59 of its
\* assigned_date fails and pays nothing: no row, balance or ledger entry changes
C11_WeeklyPastDayFails ==
    [][\A a \in assigned :
          (/\ TaskOf(a.task_id).type = "weekly"
           /\ now > EndOfDay(a.assigned_date)
           /\ handle_complete_task(a.child_id, a.assignment_id))
          => out'.res # "ok" /\ UNCHANGED store]_vars

\* the return request of user u for assignment aid must fail
MustFail(u, aid) ==
    \/ ~is_admin(u)
    \/ \A a \in RowsOf(assigned, aid) :
          \/ ~a.is_completed
          \/ a.reward_received = NULL
          \/ a.reward_received <= 0
          \/ TaskOf(a.task_id).created_by # u

\* C12: a return request fails and changes no row, no balance and no ledger
\* entry when the assignment is not completed, when its reward_received is null
\* or <= 0, when the requester is no admin, or when another admin created the task
C12_FailedReturn ==
    [][\A u \in UserIds : \A aid \in AssignmentIds :
          (handle_return_task(u, aid) /\ MustFail(u, aid))
          => out'.res # "ok" /\ UNCHANGED store]_vars

\* admin a2 has just been refused the return of a completed, paid assignment of
\* a task of a1
C12_Witness ==
    /\ out.op = "return" /\ out.user = "a2" /\ out.res = "not_found"
    /\ \E a \in assigned : /\ a.assignment_id = out.assignment_id
                            /\ a.is_completed
                            /\ a.reward_received > 0
                            /\ TaskOf(a.task_id).created_by = "a1"

\* C13: for every assignment reward_received is non-null exactly when
\* is_completed is true, and completed_at is non-null exactly then
C13_RewardIffCompleted ==
    \A a \in assigned :
        /\ (a.reward_received # NULL) <=> a.is_completed
        /\ (a.completed_at # NULL) <=> a.is_completed

\* one assignment is completed, another was completed and returned, after a sweep
C13_Witness ==
    /\ out.op = "return" /\ out.res = "ok"
    /\ \E a \in assigned : a.is_completed /\ a.reward_received # NULL
    /\ \E a \in assigned : /\ a.assignment_id = out.assignment_id
                            /\ ~a.is_completed
                            /\ a.reward_received = NULL

\* the last handler was the successful return of row a
Returned(a) ==
    /\ out.op = "return" /\ out.res = "ok" /\ out.assignment_id = a.assignment_id

\* what C14 says of row a, returned last: it is open, the list of its child
\* offers it with a complete button, and a completion request of the child succeeds
Available(a) ==
    /\ ~a.is_completed
    /\ handle_tasks(a.child_id)
       => \E n \in out'.notes : n.kind = "buttons" /\ a.assignment_id \in n.tasks
    /\ handle_complete_task(a.child_id, a.assignment_id) => out'.res = "ok"

InPeriod(a) ==
    IF TaskOf(a.task_id).type = "special" THEN today <= DayOf(a.due_date)
    ELSE a.assigned_date = today /\ now <= EndOfDay(today)

C15_BalanceNonNegative ==
    \A c \in Children : users[c].balance >= 0

\* C15, amended: a completion, a manual addition and a manual removal never take
\* a balance below 0; only a return can
C15_OnlyReturnGoesNegative ==
    [][\A c \in Children :
          (users[c].balance >= 0 /\ out'.op # "return") => users'[c].balance >= 0]_vars

\* a manual removal took the balance of c1 down to less than the reward a
\* completion had paid
C15_Witness ==
    /\ out.op = "input" /\ out.res = "remove_balance"
    /\ CountTx(transactions, "c1", "task_reward") = 1
    /\ users["c1"].balance >= 0
    /\ users["c1"].balance < transactions[1].amount

-----------------------------------------------------------------------------
\* Faults: a statement of the transaction or the commit raises, or Telegram
\* does not take the messages

\* the tables a completion or a return writes
Tables == [assigned |-> assigned, users |-> users, transactions |-> transactions]

\* conn.rollback() in the except branch: what the transaction wrote is dropped
\* the rollback that leaves what was written
Rollback_keep(committed, working) == working

Rollback(committed, working) == committed

\* send_telegram_message when the request fails: the exception is caught, the
\* function returns False, and the caller goes on with its transaction
\* the failure that reaches the caller's except branch and its rollback
AfterFailedSend_rollback(committed, working) == committed

AfterFailedSend(committed, working) == working

\* the statements of a transaction that can raise: the three writes, the commit;
\* "send": the store works and every message fails
Faults == {"assignment", "balance", "ledger", "commit", "send"}

\* handle_complete_task: the transaction as far as the fault lets it run
CompletionWrites(user_id, assignment_id, final_reward, fault) ==
    LET w1 == [Tables EXCEPT !.assigned =
                  MarkCompleted(assigned, assignment_id, final_reward, now)]
        w2 == [w1 EXCEPT !.users = AddToBalance(users, user_id, final_reward)]
        w3 == [w2 EXCEPT !.transactions =
                  Append(transactions, Transaction(user_id, final_reward, "task_reward"))]
    IN  CASE fault = "assignment" -> Tables
          [] fault = "balance" -> w1
          [] fault = "ledger" -> w2
          [] OTHER -> w3

\* handle_return_task: the transaction as far as the fault lets it run
ReturnWrites(child_id, assignment_id, reward_received, fault) ==
    LET w1 == [Tables EXCEPT !.assigned = MarkReturned(assigned, assignment_id)]
        w2 == [w1 EXCEPT !.users = AddToBalance(users, child_id, 0 - reward_received)]
        w3 == [w2 EXCEPT !.transactions =
                  Append(transactions,
                         Transaction(child_id, 0 - reward_received, "task_return"))]
    IN  CASE fault = "assignment" -> Tables
          [] fault = "balance" -> w1
          [] fault = "ledger" -> w2
          [] OTHER -> w3

\* the end of a request under a fault: a store error goes to the except branch
\* (answer, rollback); with failed messages the handler has committed and goes on
Outcome(working, fault) ==
    IF fault = "send" THEN AfterFailedSend(Tables, working)
    ELSE Rollback(Tables, working)

\* handle_complete_task for a request that reaches the writes, under a fault
handle_complete_task_fault(user_id, assignment_id, fault) ==
    LET rows == CompletableRows(user_id, assignment_id)
        a == CHOOSE r \in rows : TRUE
        t == TaskOf(a.task_id)
        final_reward == FinalReward(t.type, t.reward, a.due_date, now)
        end == Outcome(CompletionWrites(user_id, assignment_id, final_reward, fault),
                       fault)
    IN
    /\ rows # {}
    /\ CompletionGuard(t.type, a.assigned_date, now) = "ok"
    /\ Len(transactions) < MaxTx
    /\ assigned' = end.assigned
    /\ users' = end.users
    /\ transactions' = end.transactions
    /\ out' = IF fault = "send"
              THEN Out("complete", user_id, "ok", assignment_id, final_reward, {})
              ELSE Out("complete", user_id, "error", assignment_id, 0, {})
    /\ last' = IF fault = "send"
               THEN [assignment_id |-> assignment_id, balance |-> users[user_id].balance]
               ELSE NoLast
    /\ UNCHANGED <<now, schema, tasks, nextTaskId, nextAssignmentId,
                   user_temp_data, pc, loc>>

\* handle_return_task for a request that reaches the writes, under a fault
handle_return_task_fault(user_id, assignment_id, fault) ==
    LET rows == ReturnableRows(user_id, assignment_id)
        a == CHOOSE r \in rows : TRUE
        end == Outcome(ReturnWrites(a.child_id, assignment_id, a.reward_received, fault),
                       fault)
    IN
    /\ is_admin(user_id)
    /\ rows # {}
    /\ a.reward_received # NULL /\ a.reward_received > 0
    /\ Len(transactions) < MaxTx
    /\ assigned' = end.assigned
    /\ users' = end.users
    /\ transactions' = end.transactions
    /\ out' = IF fault = "send"
              THEN Out("return", user_id, "ok", assignment_id, a.reward_received, {})
              ELSE Out("return", user_id, "error", assignment_id, 0, {})
    /\ last' = IF fault = "send" /\ last.assignment_id = assignment_id
               THEN last ELSE NoLast
    /\ UNCHANGED <<now, schema, tasks, nextTaskId, nextAssignmentId,
                   user_temp_data, pc, loc>>

\* TaskScheduler.assign_daily_tasks / assign_weekly_tasks when every message
\* fails: the children are told inside the transaction, before the commit
TaskScheduler_assign_unsent(type) ==
    LET st == RunSweep(type)
        end == AfterFailedSend(Tables, [Tables EXCEPT !.assigned = st.assigned])
    IN
    /\ st.notes # {}
    /\ Cardinality(st.assigned) <= MaxAssigned
    /\ assigned' = end.assigned
    /\ nextAssignmentId' = st.next
    /\ out' = [Out(type, "cron", "ok", NULL, st.count, {}) EXCEPT !.date = today]
    /\ last' = NoLast
    /\ UNCHANGED <<now, schema, users, tasks, transactions, nextTaskId,
                   user_temp_data, pc, loc>>

NextFault ==
    \/ Tick(Horizon)
    \/ \E text \in Texts : handle_user_input("a1", text)
    \/ \E type \in {"daily", "weekly"} : TaskScheduler_assign(type)
    \/ \E type \in {"daily", "weekly"} : TaskScheduler_assign_unsent(type)
    \/ \E aid \in AssignmentIds : handle_complete_task("c1", aid)
    \/ \E aid \in AssignmentIds : handle_return_task("a1", aid)
    \/ \E aid \in AssignmentIds, fault \in Faults :
           handle_complete_task_fault("c1", aid, fault)
    \/ \E aid \in AssignmentIds, fault \in Faults :
           handle_return_task_fault("a1", aid, fault)

SpecFault == Init /\ [][NextFault]_vars

\* the ledger entries of the type that name the child
Entries(txs, child_id, type) ==
    {i \in 1..Len(txs) : txs[i].child_id = child_id /\ txs[i].type = type}

\* the assignment, the balance and the ledger agree: the child has one more
\* task_reward than task_return entry for each completed assignment, and the
\* balance is what the completed assignments have paid
Consistent ==
    \A c \in Children :
        /\ Cardinality(Entries(transactions, c, "task_reward"))
             - Cardinality(Entries(transactions, c, "task_return"))
           = Cardinality(Completed(c))
        /\ users[c].balance = SumRewards(Completed(c))

\* C16: a completion or a return in which one of the three writes or the commit
\* raises leaves the tables as they were, and in every state the completed
\* assignments, the balances and the ledger agree
C16_AllOrNothing ==
    [][/\ \A aid \in AssignmentIds : \A fault \in Faults \ {"send"} :
             (\/ handle_complete_task_fault("c1", aid, fault)
              \/ handle_return_task_fault("a1", aid, fault))
             => /\ UNCHANGED store
                /\ out'.res = "error"
       /\ Consistent']_vars

\* a completion has just failed with an error and the assignment is still open,
\* after an earlier completion and return went through
C16_Witness ==
    /\ out.op = "complete" /\ out.res = "error"
    /\ \E a \in assigned : a.assignment_id = out.assignment_id /\ ~a.is_completed
    /\ Len(transactions) = 2

\* C17: when the messages of a completion, a return or a sweep fail, the changes
\* of the operation are committed all the same: the completion has marked the
\* row and paid, the return has reopened the row and taken the reward back, the
\* sweep has created the assignments it counted
C17_FailedNotificationCommits ==
    [][/\ \A a \in assigned :
             handle_complete_task_fault(a.child_id, a.assignment_id, "send")
             => Paid(a, FinalReward(TaskOf(a.task_id).type, TaskOf(a.task_id).reward,
                                    a.due_date, now))
       /\ \A a \in assigned :
             handle_return_task_fault("a1", a.assignment_id, "send")
             => /\ \A b \in RowsOf(assigned', a.assignment_id) : ~b.is_completed
                /\ users'[a.child_id].balance
                     = users[a.child_id].balance - a.reward_received
                /\ LastTx(transactions').type = "task_return"
       /\ \A type \in {"daily", "weekly"} :
             TaskScheduler_assign_unsent(type)
             => /\ out'.amount > 0
                /\ Cardinality(assigned' \ assigned) = out'.amount]_vars

\* a sweep whose messages all failed has just created an assignment
C17_Witness ==
    /\ out.op = "daily" /\ out.res = "ok" /\ out.notes = {} /\ out.amount = 1
    /\ Cardinality({a \in assigned : a.assigned_date = today}) = 1

-----------------------------------------------------------------------------
\* Task management: the admin disables, enables and deletes tasks.  The data of
\* a callback is a sequence of the words between the underscores, the last one
\* the number: 'task_delete_confirm_1' is <<"task", "delete", "confirm", 1>>

\* data.startswith(prefix)
StartsWith(data, prefix) ==
    /\ Len(data) >= Len(prefix)
    /\ SubSeq(data, 1, Len(prefix)) = prefix

\* data.replace(prefix, ''), for data that starts with the prefix
Replace(data, prefix) == SubSeq(data, Len(prefix) + 1, Len(data))

\* int(text) returns a number for a text of digits and raises ValueError otherwise
IsInt(text) == Len(text) = 1 /\ text[1] \in Nat

\* the query without AND created_by = ..
OwnTasks_any(user_id, task_id) == {t \in tasks : t.task_id = task_id}

\* SELECT title FROM tasks WHERE task_id = .. AND created_by = ..
OwnTasks(user_id, task_id) ==
    {t \in tasks : t.task_id = task_id /\ t.created_by = user_id}

\* UPDATE tasks SET is_active = .. WHERE task_id = ..
SetActive(rows, task_id, flag) ==
    {IF t.task_id = task_id THEN [t EXCEPT !.is_active = flag] ELSE t : t \in rows}

\* the answer of a management handler that changes nothing
Answer(op, user_id, res, task_id) ==
    /\ out' = Out(op, user_id, res, NULL, 0, {Note(user_id, res, {task_id})})
    /\ last' = NoLast
    /\ UNCHANGED <<now, schema, store, user_temp_data, pc, loc>>

\* disable_task (flag FALSE) and enable_task (flag TRUE), which end with the
\* list of show_task_management
set_active(op, user_id, task_id, flag) ==
    IF ~is_admin(user_id) THEN Answer(op, user_id, "not_admin", task_id)
    ELSE IF OwnTasks(user_id, task_id) = {} THEN Answer(op, user_id, "not_found", task_id)
    ELSE /\ tasks' = SetActive(tasks, task_id, flag)
         /\ out' = Out(op, user_id, "ok", NULL, 0, {Note(user_id, "ok", {task_id})})
         /\ last' = NoLast
         /\ UNCHANGED <<now, schema, users, assigned, transactions, nextTaskId,
                        nextAssignmentId, user_temp_data, pc, loc>>

disable_task(user_id, task_id) == set_active("disable", user_id, task_id, FALSE)

enable_task(user_id, task_id) == set_active("enable", user_id, task_id, TRUE)

\* confirm_delete_task: the prompt with the button task_delete_confirm_<task_id>
confirm_delete_task(user_id, task_id) ==
    IF ~is_admin(user_id) THEN Answer("delete", user_id, "not_admin", task_id)
    ELSE IF OwnTasks(user_id, task_id) = {}
    THEN Answer("delete", user_id, "not_found", task_id)
    ELSE Answer("delete", user_id, "delete_prompt", task_id)

\* DELETE FROM tasks WHERE task_id = ..: with ON DELETE CASCADE the rows of
\* assigned_tasks go with the task, with a plain foreign key the statement raises
\* while a row names the task, with no key the rows stay behind
DeleteFrom(task_id) ==
    LET named == {a \in assigned : a.task_id = task_id}
        rest == {t \in tasks : t.task_id # task_id}
    IN  CASE schema.on_delete = "cascade" ->
               [ok |-> TRUE, tasks |-> rest, assigned |-> assigned \ named]
          [] schema.on_delete = "restrict" /\ named # {} ->
               [ok |-> FALSE, tasks |-> tasks, assigned |-> assigned]
          [] OTHER ->
               [ok |-> TRUE, tasks |-> rest, assigned |-> assigned]

\* delete_task(chat_id, user_id, message_id, task_id)
delete_task(user_id, task_id) ==
    LET affected_children == {a.child_id : a \in {x \in assigned :
                                  x.task_id = task_id /\ ~x.is_completed}}
        r == DeleteFrom(task_id)
    IN  IF ~is_admin(user_id) THEN Answer("deleted", user_id, "not_admin", task_id)
        ELSE IF OwnTasks(user_id, task_id) = {}
        THEN Answer("deleted", user_id, "not_found", task_id)
        ELSE /\ tasks' = r.tasks
             /\ assigned' = r.assigned
             /\ out' = Out("deleted", user_id, IF r.ok THEN "ok" ELSE "error", NULL,
                           Cardinality(affected_children),
                           {Note(user_id, IF r.ok THEN "ok" ELSE "error", {task_id})})
             /\ last' = NoLast
             /\ UNCHANGED <<now, schema, users, transactions, nextTaskId,
                            nextAssignmentId, user_temp_data, pc, loc>>

\* handle_admin_callback, the branches of task management in the order of the
\* code; int() of a text that is no number raises ValueError, which
\* process_update_sync catches and logs
handle_admin_callback(user_id, data) ==
    LET call(prefix, handler(_, _)) ==
            IF IsInt(Replace(data, prefix))
            THEN handler(user_id, Replace(data, prefix)[1])
            ELSE Answer("admin", user_id, "ValueError", NULL)
    IN  IF ~is_admin(user_id) THEN Answer("admin", user_id, "not_admin", NULL)
        ELSE IF StartsWith(data, <<"task", "disable">>)
        THEN call(<<"task", "disable">>, disable_task)
        ELSE IF StartsWith(data, <<"task", "enable">>)
        THEN call(<<"task", "enable">>, enable_task)
        ELSE IF StartsWith(data, <<"task", "delete">>)
        THEN call(<<"task", "delete">>, confirm_delete_task)
        ELSE IF StartsWith(data, <<"task", "delete", "confirm">>)
        THEN call(<<"task", "delete", "confirm">>, delete_task)
        ELSE Answer("admin", user_id, "ignored", NULL)

\* the task ids a button can carry: those given out and the next one
TaskIds == 1..nextTaskId

\* the buttons of show_task_management and of the prompt of confirm_delete_task
Buttons ==
    {<<"task", k, id>> : k \in {"disable", "enable", "delete"}, id \in TaskIds}
    \cup {<<"task", "delete", "confirm", id>> : id \in TaskIds}

\* a1 stores a task, the sweeps assign it, c1 completes and looks at the list,
\* and the admins and c1 press the buttons of task management
InitManage ==
    /\ Init
    /\ schema.assigned_date = "timestamp"

NextManage ==
    \/ Tick(Horizon)
    \/ \E text \in Texts : handle_user_input("a1", text)
    \/ \E type \in {"daily", "weekly"} : TaskScheduler_assign(type)
    \/ \E aid \in AssignmentIds : handle_complete_task("c1", aid)
    \/ handle_tasks("c1")
    \/ \E u \in {"a1", "a2", "c1"}, data \in Buttons : handle_admin_callback(u, data)

SpecManage == InitManage /\ [][NextManage]_vars

\* the open assignments of the task that a child can still be shown or complete
Live(rows, defs, task_id) ==
    {a \in rows : /\ a.task_id = task_id
                  /\ ~a.is_completed
                  /\ \E t \in defs : t.task_id = a.task_id}

\* C18: when an admin presses the button task_delete_confirm_<task_id> of the
\* prompt for a task of theirs, the task is removed and none of its open
\* assignments can be listed or completed any more
C18_ConfirmedDeleteRemoves ==
    [][\A u \in Admins : \A t \in tasks :
          (/\ t.created_by = u
           /\ out.op = "delete" /\ out.res = "delete_prompt" /\ out.user = u
           /\ out.notes = {Note(u, "delete_prompt", {t.task_id})}
           /\ handle_admin_callback(u, <<"task", "delete", "confirm", t.task_id>>))
          => /\ \A t2 \in tasks' : t2.task_id # t.task_id
             /\ Live(assigned', tasks', t.task_id) = {}]_vars

\* the step is a successful disable_task or enable_task of task t by admin u
Toggles(u, t) ==
    /\ \/ handle_admin_callback(u, <<"task", "disable", t>>)
       \/ handle_admin_callback(u, <<"task", "enable", t>>)
    /\ out'.res = "ok"

\* C20: disabling or enabling a task that does not exist or belongs to another
\* admin fails and changes nothing; a successful one changes the is_active flag
\* of that task and nothing else, and an open assignment of a disabled task is
\* still completed in its period
C20_SetActive ==
    [][/\ \A u \in Admins : \A id \in TaskIds :
             (/\ \A t \in tasks : t.task_id = id => t.created_by # u
              /\ \/ handle_admin_callback(u, <<"task", "disable", id>>)
                 \/ handle_admin_callback(u, <<"task", "enable", id>>))
             => /\ out'.res = "not_found"
                /\ UNCHANGED store
       /\ \A u \in Admins : \A id \in TaskIds :
             Toggles(u, id)
             => /\ {[t EXCEPT !.is_active = TRUE] : t \in tasks'}
                     = {[t EXCEPT !.is_active = TRUE] : t \in tasks}
                /\ \A t \in tasks : \A t2 \in tasks' :
                      (t.task_id = t2.task_id /\ t.task_id # id)
                      => t.is_active = t2.is_active
                /\ UNCHANGED <<users, assigned, transactions>>
       /\ \A a \in assigned :
             (/\ ~a.is_completed
              /\ \E t \in tasks : t.task_id = a.task_id /\ ~t.is_active
              /\ InPeriod(a)
              /\ handle_complete_task(a.child_id, a.assignment_id))
             => out'.res = "ok"]_vars

\* c1 has just completed an assignment of a task that a1 had disabled
C20_Witness ==
    /\ out.op = "complete" /\ out.res = "ok"
    /\ \E a \in assigned : /\ a.assignment_id = out.assignment_id
                            /\ a.is_completed
                            /\ ~TaskOf(a.task_id).is_active

\* Deleting: a1 stores a task, the sweeps assign it, c1 completes, and the admins
\* call delete_task; the foreign key is any of the three
InitDelete == StartWith(InitUsers, ForeignKeys) /\ schema.assigned_date = "timestamp"

NextDelete ==
    \/ Tick(Horizon)
    \/ \E text \in Texts : handle_user_input("a1", text)
    \/ \E type \in {"daily", "weekly"} : TaskScheduler_assign(type)
    \/ \E aid \in AssignmentIds : handle_complete_task("c1", aid)
    \/ handle_tasks("c1")
    \/ \E u \in Admins, id \in TaskIds : delete_task(u, id)

SpecDelete == InitDelete /\ [][NextDelete]_vars

-----------------------------------------------------------------------------
\* Properties of the sweeps

\* C21: a sweep creates an assignment for a task and a child only if the task is
\* active, of the type of the sweep and created by an admin, the child is a child
\* of that admin or of no admin, and, in the weekly sweep, the due_day of the
\* task is the name of today's weekday; a disabled task gets no new assignment
C21_SweepAssignsOnlyEligible ==
    [][\A type \in {"daily", "weekly"} :
          TaskScheduler_assign(type) =>
             \A a \in assigned' \ assigned :
                \E t \in tasks :
                   /\ t.task_id = a.task_id
                   /\ t.is_active
                   /\ t.type = type
                   /\ users[t.created_by].role = "admin"
                   /\ users[a.child_id].role = "child"
                   /\ users[a.child_id].parent_id \in {t.created_by, NoParent}
                   /\ type = "weekly" => t.due_day = WeekdayName(today)]_vars

\* a sweep has just assigned nothing while a disabled task of its type has no row
\* of today, and an earlier sweep had assigned that task
C21_Witness ==
    /\ out.op \in {"daily", "weekly"}
    /\ out.amount = 0
    /\ \E t \in tasks :
          /\ ~t.is_active
          /\ t.type = out.op
          /\ t.type = "weekly" => t.due_day = WeekdayName(today)
          /\ \E a \in assigned : a.task_id = t.task_id /\ a.assigned_date < out.date
          /\ ~\E a \in assigned : a.task_id = t.task_id /\ a.assigned_date = out.date

-----------------------------------------------------------------------------
\* The task wizard from its first step, with the buttons of its earlier messages

MaxTasks == 2

\* start_add_task behind handle_admin_callback('admin_add_task')
start_add_task(user_id) ==
    /\ last' = NoLast
    /\ UNCHANGED <<now, schema, store, pc, loc>>
    /\ IF ~is_admin(user_id)
       THEN /\ out' = Out("add_task", user_id, "not_admin", NULL, 0, {})
            /\ UNCHANGED user_temp_data
       ELSE /\ user_temp_data' = [user_temp_data EXCEPT ![user_id] =
                   [BlankSession EXCEPT !.created_by = user_id, !.step = "type"]]
            /\ out' = Out("add_task", user_id, "type", NULL, 0, {})

\* handle_task_creation_callback: 'cancel', 'task_type_<type>' and 'day_<day>'
handle_task_creation_callback(user_id, data) ==
    LET user_data == user_temp_data[user_id]
        goto(d) == /\ user_temp_data' = [user_temp_data EXCEPT ![user_id] = d]
                   /\ out' = Out("creation", user_id, d.step, NULL, 0, {})
    IN
    /\ last' = NoLast
    /\ UNCHANGED <<now, schema, store, pc, loc>>
    /\ IF data = <<"cancel">>
       THEN /\ user_temp_data' = [user_temp_data EXCEPT ![user_id] = NoSession]
            /\ out' = Out("creation", user_id, "cancelled", NULL, 0, {})
       ELSE IF ~user_data.present
       THEN /\ out' = Out("creation", user_id, "expired", NULL, 0, {})
            /\ UNCHANGED user_temp_data
       ELSE IF StartsWith(data, <<"task", "type">>)
       THEN goto([user_data EXCEPT !.type = Replace(data, <<"task", "type">>)[1],
                                   !.step = "title"])
       ELSE IF StartsWith(data, <<"day">>)
       THEN goto([user_data EXCEPT !.due_day = Replace(data, <<"day">>)[1],
                                   !.step = "due_time"])
       ELSE /\ out' = Out("creation", user_id, "ignored", NULL, 0, {})
            /\ UNCHANGED user_temp_data

\* the buttons of start_add_task and of the step 'due_day', of this message or
\* of an earlier one
WizardButtons ==
    {<<"task", "type", ty>> : ty \in {"daily", "weekly", "special"}}
    \cup {<<"day", d>> : d \in DueDays}
    \cup {<<"cancel">>}

\* a1 goes through the wizard any number of times, up to MaxTasks tasks, pressing
\* any button of it at any step; the sweeps and a1 by hand assign the tasks
NextWizard ==
    \/ start_add_task("a1")
    \/ \E data \in WizardButtons : handle_task_creation_callback("a1", data)
    \/ \E text \in Texts : nextTaskId <= MaxTasks /\ handle_user_input("a1", text)
    \/ \E type \in {"daily", "weekly"} : TaskScheduler_assign(type)
    \/ assign_daily_tasks("a1")

SpecWizard == Init /\ [][NextWizard]_vars

\* the schedule fields a task of each type has
ScheduleByType(t) ==
    CASE t.type = "daily" ->
           t.due_time # NULL /\ t.due_day = "NULL" /\ t.custom_due_date = NULL
      [] t.type = "weekly" ->
           t.due_time # NULL /\ t.due_day # "NULL" /\ t.custom_due_date = NULL
      [] t.type = "special" ->
           t.due_time = NULL /\ t.due_day = "NULL" /\ t.custom_due_date # NULL
      [] OTHER -> FALSE

\* C25: every task stored through the wizard has reward > 0 and the schedule
\* fields of its type and no other, whatever texts and buttons the admin sent
C25_StoredTaskWellFormed ==
    \A t \in tasks : t.reward > 0 /\ ScheduleByType(t)

\* the rows a sweep step adds for child c from the tasks of admin A
NewRows(A, c) ==
    {a \in assigned' \ assigned :
        a.child_id = c /\ \E t \in tasks : t.task_id = a.task_id /\ t.created_by = A}

\* C22: in a sweep a child gets one message for each admin whose tasks gave the
\* child a new assignment, and the message lists the tasks of exactly these new
\* assignments
C22_ChildToldOfNewTasks ==
    [][\A type \in {"daily", "weekly"} :
          TaskScheduler_assign(type) =>
             \A c \in Children :
                {n \in out'.notes : n.to = c /\ n.kind = "new_tasks"}
                = {Note(c, "new_tasks", {a.task_id : a \in NewRows(A, c)}) :
                      A \in {B \in Admins : NewRows(B, c) # {}}}]_vars

-----------------------------------------------------------------------------
\* Two admins: a1 and a2 are both at the last question of the wizard, with a
\* draft of drafts1 and of drafts2; c1 is a child of both (no parent), c2 a child
\* of a2; the admins store their tasks, the sweeps assign them, c1 completes and
\* looks at the list

StartTwo(drafts1, drafts2) ==
    /\ now = StartOfDay(FirstDay)
    /\ schema = [assigned_date |-> "timestamp", on_delete |-> "cascade"]
    /\ users = InitUsers
    /\ tasks = {}
    /\ assigned = {}
    /\ transactions = <<>>
    /\ nextTaskId = 1
    /\ nextAssignmentId = 1
    /\ \E d1 \in drafts1, d2 \in drafts2 :
           user_temp_data = [u \in UserIds |-> IF u = "a1" THEN d1
                                               ELSE IF u = "a2" THEN d2
                                               ELSE NoSession]
    /\ out = NoOut
    /\ last = NoLast
    /\ pc = [r \in Requests |-> "idle"]
    /\ loc = [r \in Requests |-> NoLoc]

\* a1 is about to store a task of any type, a2 a special task
InitTwo == StartTwo(Drafts("a1"), {Draft("a2", "special", 1, "NULL")})

\* the texts of the admins: a time, two dates, a number
TextsTwo ==
    {Text("time", 1), Text("datetime", Combine(FirstDay, 1)),
     Text("datetime", Combine(FirstDay + 1, 1)), Text("number", 6)}

NextTwo ==
    \/ Tick(Horizon)
    \/ \E u \in Admins, text \in TextsTwo : handle_user_input(u, text)
    \/ \E data \in {"c1", "confirm"} :
           /\ user_temp_data["a2"].step = "select_children"
           /\ handle_special_child_selection("a2", data)
    \/ \E type \in {"daily", "weekly"} : TaskScheduler_assign(type)
    \/ \E aid \in AssignmentIds : handle_complete_task("c1", aid)
    \/ handle_tasks("c1")

SpecTwo == InitTwo /\ [][NextTwo]_vars

\* the rule of exclusion: a daily row of another day whose due instant is past,
\* or a daily or weekly row after 23:59:59 of its day
Excluded(a) ==
    LET t == TaskOf(a.task_id) IN
    \/ t.type = "daily" /\ a.assigned_date # today /\ a.due_date < now
    \/ t.type \in {"daily", "weekly"} /\ now > EndOfDay(a.assigned_date)

\* the ids on the buttons of the list in out
ButtonsOf(o) == UNION {n.tasks : n \in {m \in o.notes : m.kind = "buttons"}}

\* C26: in the child's list every open assignment has its complete button unless
\* it is daily or weekly and meets the rule of exclusion; a special assignment has
\* it however long it is overdue
C26_OnlyExcludedLackButton ==
    [][\A c \in Children :
          (handle_tasks(c) /\ out'.res = "ok")
          => \A a \in ActiveRows(assigned, c) :
                a.assignment_id \notin ButtonsOf(out') => Excluded(a)]_vars

\* the row of an entry of the list
RowById(id) == CHOOSE a \in assigned : a.assignment_id = id

\* the four groups of the list: past the due instant, special, daily, weekly
Group(a) ==
    IF a.due_date < now THEN 0
    ELSE CASE TaskOf(a.task_id).type = "special" -> 1
           [] TaskOf(a.task_id).type = "daily" -> 2
           [] OTHER -> 3

\* C27: the entries of the child's list come with the rows already past their
\* due instant first, then the special, the daily and the weekly rows, and in
\* each of the four groups by due instant ascending
C27_ListOrdered ==
    [][\A c \in Children :
          (handle_tasks(c) /\ out'.res = "ok")
          => \A i, j \in 1..Len(out'.order) :
                i < j => \/ Group(RowById(out'.order[i])) < Group(RowById(out'.order[j]))
                         \/ /\ Group(RowById(out'.order[i])) = Group(RowById(out'.order[j]))
                            /\ RowById(out'.order[i]).due_date
                                  <= RowById(out'.order[j]).due_date]_vars

\* the list of c1 begins with a weekly row past its due instant and goes on with
\* a special row not yet due
C27_Witness ==
    /\ out.op = "tasks" /\ out.res = "ok"
    /\ Len(out.order) >= 2
    /\ \E a, b \in assigned :
          /\ a.assignment_id = out.order[1] /\ b.assignment_id = out.order[2]
          /\ TaskOf(a.task_id).type = "weekly" /\ a.due_date < now
          /\ TaskOf(b.task_id).type = "special" /\ b.due_date >= now

-----------------------------------------------------------------------------
\* The reports of a sweep, the manual assignment, and what a sweep leaves alone

\* the number of rows a sweep step adds from the tasks of admin A
CountNew(A) == Cardinality(UNION {NewRows(A, c) : c \in Children})

\* C23: in the daily and in the weekly sweep each admin whose tasks gave a new
\* assignment is sent the report, and an admin whose tasks gave none is sent none
C23_AdminReport ==
    [][\A type \in {"daily", "weekly"} :
          TaskScheduler_assign(type) =>
             \A A \in Admins :
                CountNew(A) > 0 <=> Note(A, "report", {}) \in out'.notes]_vars

\* the pass of the daily sweep over the tasks of admin A, from the present store
SweepOf(A) ==
    LET st == assign_admin_daily_tasks(A, Sweep(assigned, nextAssignmentId, 0, {}, {}))
    IN  [st EXCEPT !.results = {[admin_id |-> A, assigned |-> st.count]}]

\* C28: the manual assignment of admin A creates the assignments and sends the
\* messages that the daily sweep creates and sends for the tasks of A
C28_ManualIsSweep ==
    [][\A A \in Admins :
          (assign_daily_tasks(A) /\ out'.res = "ok")
          => /\ assigned' = SweepOf(A).assigned
             /\ {n \in out'.notes : n.kind \in {"new_tasks", "report"}}
                  = SweepOf(A).notes
                    \cup notify_admins_about_assignment(SweepOf(A).results, "daily")]_vars

\* C29: a sweep or the manual assignment leaves every row there was, every task,
\* balance and ledger entry as it is, and adds only rows that are not completed
C29_SweepOnlyInserts ==
    [][(\/ \E type \in {"daily", "weekly"} : TaskScheduler_assign(type)
        \/ \E A \in Admins : assign_daily_tasks(A))
       => /\ assigned \subseteq assigned'
          /\ \A a \in assigned' \ assigned :
                ~a.is_completed /\ a.completed_at = NULL /\ a.reward_received = NULL
          /\ UNCHANGED <<tasks, users, transactions>>]_vars

\* a sweep or the manual assignment has just added a row next to a completed one
C29_Witness ==
    /\ out.op \in {"daily", "weekly", "assign_daily"}
    /\ out.res = "ok" /\ out.amount > 0
    /\ \E a \in assigned : a.is_completed /\ a.reward_received > 0
    /\ \E a \in assigned : ~a.is_completed
    /\ Len(transactions) > 0

-----------------------------------------------------------------------------
\* A store error in the pass of one admin of a sweep.  The sweep runs in one
\* transaction on one cursor; the except of the loop logs the error and goes on
\* without a rollback, so the server refuses every later statement of the
\* transaction, the passes of the later admins and the INSERT INTO
\* task_assignment_logs raise as well, and conn.commit() ends the failed
\* transaction with nothing written.

\* the admins of the sweep before the one whose pass fails
RECURSIVE AdminsBefore(_, _)
AdminsBefore(admins, failing) ==
    IF admins = <<>> \/ Head(admins) = failing THEN <<>>
    ELSE <<Head(admins)>> \o AdminsBefore(Tail(admins), failing)

\* TaskScheduler.assign_daily_tasks / assign_weekly_tasks with a store error at
\* the first statement of the pass of admin failing; the serial keeps the
\* numbers the lost rows took
TaskScheduler_assign_fault(type, failing) ==
    LET admins == SweepAdmins(type)
        st == AssignAdmins(type, AdminsBefore(admins, failing),
                           Sweep(assigned, nextAssignmentId, 0, {}, {}))
        end == Rollback(Tables, [Tables EXCEPT !.assigned = st.assigned])
    IN
    /\ InSeq(admins, failing)
    /\ st.next <= MaxAssigned + 1
    /\ assigned' = end.assigned
    /\ nextAssignmentId' = st.next
    /\ out' = [Out(type, "cron", "error", NULL, st.count,
                   st.notes \cup notify_admins_about_assignment(st.results, type))
               EXCEPT !.date = today, !.user = failing]
    /\ last' = NoLast
    /\ UNCHANGED <<now, schema, users, tasks, transactions, nextTaskId,
                   user_temp_data, pc, loc>>

\* a1 and a2 are each about to store a daily or a weekly task
InitIsolate ==
    StartTwo({d \in Drafts("a1") : d.type # "special"},
             {d \in Drafts("a2") : d.type # "special"})

NextIsolate ==
    \/ Tick(Horizon)
    \/ \E u \in Admins, text \in Texts : handle_user_input(u, text)
    \/ \E type \in {"daily", "weekly"} : TaskScheduler_assign(type)
    \/ \E type \in {"daily", "weekly"}, failing \in Admins :
           TaskScheduler_assign_fault(type, failing)

SpecIsolate == InitIsolate /\ [][NextIsolate]_vars

\* the tasks of admin A that a sweep of the type assigns today
DueTasks(type, A) ==
    {t \in tasks : /\ t.type = type /\ t.is_active /\ t.created_by = A
                   /\ type = "weekly" => t.due_day = WeekdayName(today)}

\* C24: when the pass of one admin raises a store error, the sweep still creates
\* and commits the assignments of the other admins, those before and those after
C24_OtherAdminsAssigned ==
    [][\A type \in {"daily", "weekly"} : \A failing \in Admins :
          TaskScheduler_assign_fault(type, failing) =>
             \A A \in Admins \ {failing} :
                \A t \in DueTasks(type, A) :
                   \A i \in 1..Len(ChildrenOf(A)) :
                      Exists(IF type = "daily" THEN "day" ELSE "week",
                             assigned', t.task_id, ChildrenOf(A)[i])]_vars

-----------------------------------------------------------------------------
\* The balance and the completed assignments

\* the sum of the amounts of the child's ledger entries of the types
RECURSIVE SumOfTypes(_, _, _)
SumOfTypes(txs, child_id, types) ==
    IF txs = <<>> THEN 0
    ELSE (IF Head(txs).child_id = child_id /\ Head(txs).type \in types
          THEN Head(txs).amount ELSE 0)
         + SumOfTypes(Tail(txs), child_id, types)

\* C30: in every state the balance of each child is the sum of reward_received
\* over the child's completed assignments plus the sum of the child's manual_add
\* and manual_remove ledger amounts
C30_BalanceIsCompletedPlusManual ==
    \A c \in Children :
       users[c].balance
       = SumRewards(Completed(c))
         + SumOfTypes(transactions, c, {"manual_add", "manual_remove"})

-----------------------------------------------------------------------------
\* Two return requests at once, each its own connection and transaction as the
\* completion requests above

\* handle_return_task up to the writes: the admin check, the SELECT, the check
\* of reward_received
return_select(r, user_id, assignment_id) ==
    LET rows == ReturnableRows(user_id, assignment_id)
        a == CHOOSE x \in rows : TRUE
        answer(res) == /\ out' = Out("return", user_id, res, assignment_id, 0, {})
                       /\ UNCHANGED <<pc, loc>>
    IN
    /\ pc[r] = "idle"
    /\ Len(transactions) + Cardinality({q \in Requests : pc[q] # "idle"}) < MaxTx
    /\ IF ~is_admin(user_id) THEN answer("not_admin")
       ELSE IF rows = {} THEN answer("not_found")
       ELSE IF a.reward_received = NULL \/ a.reward_received <= 0 THEN answer("no_reward")
       ELSE /\ pc' = [pc EXCEPT ![r] = "return_update"]
            /\ loc' = [loc EXCEPT ![r] =
                          [user_id |-> user_id, assignment_id |-> assignment_id,
                           task_id |-> a.task_id, child_id |-> a.child_id,
                           reward_received |-> a.reward_received]]
            /\ UNCHANGED out
    /\ UNCHANGED <<now, schema, store, user_temp_data, last>>

\* the UPDATE of assigned_tasks (WHERE assignment_id = ..) and of users and the
\* INSERT: they wait for the commit of a request that has written the same rows
return_update(r) ==
    /\ pc[r] = "return_update"
    /\ \A q \in Requests \ {r} :
           pc[q] = "return_commit" => /\ loc[q].assignment_id # loc[r].assignment_id
                                      /\ loc[q].child_id # loc[r].child_id
    /\ pc' = [pc EXCEPT ![r] = "return_commit"]
    /\ UNCHANGED <<now, schema, store, user_temp_data, out, last, loc>>

\* conn.commit() and the messages after it
return_commit(r) ==
    LET l == loc[r] IN
    /\ pc[r] = "return_commit"
    /\ assigned' = MarkReturned(assigned, l.assignment_id)
    /\ users' = AddToBalance(users, l.child_id, 0 - l.reward_received)
    /\ transactions' = Append(transactions,
                              Transaction(l.child_id, 0 - l.reward_received, "task_return"))
    /\ out' = Out("return", l.user_id, "ok", l.assignment_id, l.reward_received,
                  {Note(l.user_id, "returned", {l.task_id}),
                   Note(l.child_id, "returned", {l.task_id})})
    /\ last' = NoLast
    /\ pc' = [pc EXCEPT ![r] = "idle"]
    /\ loc' = [loc EXCEPT ![r] = NoLoc]
    /\ UNCHANGED <<now, schema, tasks, nextTaskId, nextAssignmentId, user_temp_data>>

\* a1 stores a task, the sweeps assign it, c1 completes, a1 presses the return
\* button, twice at once at most
NextReturn ==
    \/ Tick(Horizon)
    \/ \E text \in Texts : handle_user_input("a1", text)
    \/ \E type \in {"daily", "weekly"} : TaskScheduler_assign(type)
    \/ \E aid \in AssignmentIds :
           /\ \A q \in Requests : pc[q] = "idle"
           /\ handle_complete_task("c1", aid)
    \/ \E r \in Requests, aid \in AssignmentIds : return_select(r, "a1", aid)
    \/ \E r \in Requests : return_update(r)
    \/ \E r \in Requests : return_commit(r)

SpecReturn == Init /\ [][NextReturn]_vars

\* C31: however two return requests for a completed assignment interleave, the
\* reward is taken back once: the child has no more task_return than task_reward
\* ledger entries and the balance is the sum of reward_received of the
\* completed assignments
C31_ReturnsOnce ==
    \A c \in Children :
        /\ CountTx(transactions, c, "task_return") <= CountTx(transactions, c, "task_reward")
        /\ users[c].balance = SumRewards(Completed(c))

-----------------------------------------------------------------------------
\* The manual adjustment of a balance

\* the admin's session waits for the amount of an addition or a removal
EnterAmount(A) ==
    /\ user_temp_data[A].present
    /\ user_temp_data[A].action \in {"add_balance", "remove_balance"}
    /\ user_temp_data[A].step = "enter_amount"

\* C32: a removal of more than the child's balance fails and leaves balance and
\* ledger as they are; an amount that is no number or not positive is rejected,
\* leaves balance and ledger as they are and the session waiting for an amount
C32_InvalidAdjustment ==
    [][\A A \in Admins : \A text \in Texts :
          (EnterAmount(A) /\ handle_user_input(A, text))
          => /\ (/\ user_temp_data[A].action = "remove_balance"
                 /\ text.kind = "number" /\ text.val > 0
                 /\ text.val > users[user_temp_data[A].child_id].balance)
                => (out'.res = "failed" /\ UNCHANGED <<users, transactions>>)
             /\ (text.kind # "number" \/ text.val <= 0)
                => UNCHANGED <<users, transactions, user_temp_data>>]_vars

\* a removal has just failed on a child who has points, fewer than asked for
C32_Witness ==
    /\ out.op = "input" /\ out.res = "failed"
    /\ \E c \in Children : users[c].balance > 0 /\ users[c].balance < out.amount

-----------------------------------------------------------------------------
\* Two manual removals at once, each message its own connection and
\* transaction.  get_children_list() offers every child to every admin

\* handle_user_input with a positive amount in a removal session, up to the
\* writes of remove_balance: the SELECT of the balance and its test
remove_select(r, user_id, text) ==
    LET user_data == user_temp_data[user_id] IN
    /\ pc[r] = "idle"
    /\ EnterAmount(user_id) /\ user_data.action = "remove_balance"
    /\ text.kind = "number" /\ text.val > 0
    /\ IF users[user_data.child_id].balance < text.val
       THEN /\ out' = Out("input", user_id, "failed", NULL, text.val, {})
            /\ user_temp_data' = [user_temp_data EXCEPT ![user_id] = NoSession]
            /\ UNCHANGED <<pc, loc>>
       ELSE /\ Len(transactions) + Cardinality({q \in Requests : pc[q] # "idle"}) < MaxTx
            /\ pc' = [pc EXCEPT ![r] = "remove_update"]
            /\ loc' = [loc EXCEPT ![r] =
                          [user_id |-> user_id, child_id |-> user_data.child_id,
                           amount |-> text.val]]
            /\ UNCHANGED <<out, user_temp_data>>
    /\ last' = NoLast
    /\ UNCHANGED <<now, schema, store>>

\* UPDATE users SET balance = balance - amount: it waits for the commit of a
\* request that has written the same row and then runs on the committed row
remove_update(r) ==
    /\ pc[r] = "remove_update"
    /\ \A q \in Requests \ {r} :
           pc[q] = "remove_commit" => loc[q].child_id # loc[r].child_id
    /\ pc' = [pc EXCEPT ![r] = "remove_commit"]
    /\ UNCHANGED <<now, schema, store, user_temp_data, out, last, loc>>

\* the INSERT, conn.commit(), the message and del user_temp_data[user_id]
\* (KeyError when the other message of the same admin has deleted it)
remove_commit(r) ==
    LET l == loc[r] IN
    /\ pc[r] = "remove_commit"
    /\ users' = AddToBalance(users, l.child_id, 0 - l.amount)
    /\ transactions' = Append(transactions,
                              Transaction(l.child_id, 0 - l.amount, "manual_remove"))
    /\ user_temp_data' = [user_temp_data EXCEPT ![l.user_id] = NoSession]
    /\ out' = Out("input", l.user_id,
                  IF user_temp_data[l.user_id].present THEN "remove_balance" ELSE "error",
                  NULL, l.amount, {})
    /\ last' = NoLast
    /\ pc' = [pc EXCEPT ![r] = "idle"]
    /\ loc' = [loc EXCEPT ![r] = NoLoc]
    /\ UNCHANGED <<now, schema, tasks, assigned, nextTaskId, nextAssignmentId>>

\* the admins adjust the balance of c1; the amounts of removals may arrive
\* while another removal is under way
NextRemove ==
    \/ \E A \in Admins, data \in {"balance_add", "balance_remove"} :
           handle_balance_callback(A, data)
    \/ \E A \in Admins : handle_child_selection(A, "c1")
    \/ \E A \in Admins, text \in Texts :
           /\ \A q \in Requests : pc[q] = "idle"
           /\ handle_user_input(A, text)
    \/ \E r \in Requests, A \in Admins, text \in Texts : remove_select(r, A, text)
    \/ \E r \in Requests : remove_update(r)
    \/ \E r \in Requests : remove_commit(r)

SpecRemove == Init /\ [][NextRemove]_vars

\* C33: however manual removals on one child interleave, and no reward being
\* returned, the balance of the child is never negative
C33_NeverNegative ==
    \A c \in Children : users[c].balance >= 0

-----------------------------------------------------------------------------
\* The command /start

\* C35: /start makes an unknown user a child with balance 0, no parent and no
\* ledger entry; for a registered user role, balance, parent and ledger stay,
\* and no other table changes either way
C35_StartRegistersOnce ==
    [][\A u \in UserIds :
          (out'.op = "start" /\ out'.user = u)
          => /\ IF users[u].role = "none"
                THEN /\ users'[u].role = "child"
                     /\ users'[u].balance = 0
                     /\ users'[u].parent_id = NoParent
                ELSE users'[u] = users[u]
             /\ \A v \in UserIds \ {u} : users'[v] = users[v]
             /\ UNCHANGED <<tasks, assigned, transactions>>]_vars

\* c3 has registered by /start, and a child who has points has sent /start
C35_Witness ==
    /\ users["c3"].role = "child"
    /\ out.op = "start" /\ out.res = "known"
    /\ users[out.user].balance > 0
    /\ transactions # <<>>

-----------------------------------------------------------------------------
\* The scheduler function and its secret

\* os.getenv('CRON_SECRET') and headers.get('X-Cron-Secret') when there is none
NoSecret == "None"
\* what CRON_SECRET can be set to, read anew at each invocation
CronSecrets == {NoSecret, "", "s1"}
\* what the header X-Cron-Secret of an invocation can carry
Headers == {NoSecret, "", "s1", "s2"}

\* the test that lets any invocation without the header through
Authorized_missing(cron_secret, received_secret) ==
    \/ cron_secret \in {NoSecret, ""}
    \/ received_secret = cron_secret
    \/ received_secret = NoSecret

\* handler: if cron_secret: .. if received_secret != cron_secret: return 403
Authorized(cron_secret, received_secret) ==
    \/ cron_secret \in {NoSecret, ""}
    \/ received_secret = cron_secret

\* TaskScheduler.run_scheduled_tasks: the daily sweep, then the weekly sweep
run_scheduled_tasks ==
    LET daily == RunSweep("daily")
        weekly == AssignAdmins("weekly", SweepAdmins("weekly"),
                               Sweep(daily.assigned, daily.next, 0, {}, {}))
    IN  [assigned |-> weekly.assigned, next |-> weekly.next,
         total |-> daily.count + weekly.count,
         notes |-> daily.notes \cup notify_admins_about_assignment(daily.results, "daily")
                   \cup weekly.notes
                   \cup notify_admins_about_assignment(weekly.results, "weekly")]

\* handler(event, context) of the scheduler function
handler(cron_secret, received_secret) ==
    LET st == run_scheduled_tasks IN
    /\ IF ~Authorized(cron_secret, received_secret)
       THEN /\ out' = Out("handler", "cron", "403", NULL, 0, {})
            /\ UNCHANGED <<assigned, nextAssignmentId>>
       ELSE /\ Cardinality(st.assigned) <= MaxAssigned
            /\ assigned' = st.assigned
            /\ nextAssignmentId' = st.next
            /\ out' = [Out("handler", "cron", "200", NULL, st.total, st.notes)
                       EXCEPT !.date = today]
    /\ last' = NoLast
    /\ UNCHANGED <<now, schema, users, tasks, transactions, nextTaskId,
                   user_temp_data, pc, loc>>

\* a1 stores tasks, time passes, the scheduler function is invoked
NextCron ==
    \/ Tick(Horizon)
    \/ \E text \in Texts : handle_user_input("a1", text)
    \/ \E data \in {"child_all", "c1", "confirm"} :
           /\ user_temp_data["a1"].step = "select_children"
           /\ handle_special_child_selection("a1", data)
    \/ \E cron_secret \in CronSecrets, received_secret \in Headers :
           handler(cron_secret, received_secret)
    \/ \E aid \in AssignmentIds : handle_complete_task("c1", aid)

SpecCron == InitSched /\ [][NextCron]_vars

\* C36: with a CRON_SECRET configured, an invocation whose X-Cron-Secret is
\* missing or different is answered 403, creates no assignment and sends no
\* message; every other invocation runs the sweeps and is answered 200
C36_SecretGuardsSweep ==
    [][\A cron_secret \in CronSecrets, received_secret \in Headers :
          handler(cron_secret, received_secret)
          => IF cron_secret \notin {NoSecret, ""} /\ received_secret # cron_secret
             THEN /\ out'.res = "403" /\ out'.notes = {}
                  /\ UNCHANGED <<users, tasks, assigned, transactions>>
             ELSE /\ out'.res = "200"
                  /\ assigned' = run_scheduled_tasks.assigned]_vars

\* an invocation has been refused while tasks were due to be assigned
C36_Witness ==
    /\ out.op = "handler" /\ out.res = "403"
    /\ run_scheduled_tasks.total > 0

-----------------------------------------------------------------------------
\* The selection of children for a special task

\* the buttons of the selection: all, none, reset, done, and one for each child
\* of the admin
SelectionButtons(user_id) ==
    {"child_all", "child_none", "reset", "confirm", "confirm_none"}
    \cup {ChildrenOf(user_id)[i] : i \in 1..Len(ChildrenOf(user_id))}

\* a1 goes through the wizard and presses the buttons of the selection
NextSelect ==
    \/ \E text \in Texts : handle_user_input("a1", text)
    \/ \E data \in SelectionButtons("a1") : handle_special_child_selection("a1", data)
    \/ \E aid \in AssignmentIds : handle_complete_task("c1", aid)

SpecSelect == InitSched /\ [][NextSelect]_vars

\* the children in a selection
Selected(user_id) ==
    {user_temp_data[user_id].selected_children[i] :
        i \in 1..Len(user_temp_data[user_id].selected_children)}

\* the open assignments of a task to a child, in the table rows
OpenOf(rows, task_id, child_id) ==
    {a \in rows : a.task_id = task_id /\ a.child_id = child_id /\ ~a.is_completed}

\* C37: the button of a child toggles the child's membership in the selection
\* (so that pressing it twice gives the same selected children), no selection
\* holds a child twice, and the special task that 'done' stores has one open
\* assignment for each selected child and none for any other child
C37_SelectionToggles ==
    [][/\ \A c \in Children :
            (user_temp_data["a1"].present /\ handle_special_child_selection("a1", c))
            => /\ user_temp_data'["a1"].present
               /\ Selected("a1")' = IF c \in Selected("a1")
                                    THEN Selected("a1") \ {c}
                                    ELSE Selected("a1") \cup {c}
       /\ \A u \in UserIds :
            Cardinality(Selected(u)') = Len(user_temp_data'[u].selected_children)
       /\ (/\ handle_special_child_selection("a1", "confirm")
           /\ user_temp_data["a1"].type = "special"
           /\ out'.res = "created")
          => /\ \E t \in tasks' \ tasks : t.task_id = nextTaskId /\ t.type = "special"
             /\ \A c \in UserIds :
                  Cardinality(OpenOf(assigned', nextTaskId, c))
                      = IF c \in Selected("a1") THEN 1 ELSE 0]_vars

\* a special task has been stored for c2 alone, whom a1 selected after having
\* selected all children and taken c1 out again
C37_Witness ==
    /\ out.op = "special_child" /\ out.res = "created"
    /\ \E t \in tasks :
          /\ t.type = "special"
          /\ OpenOf(assigned, t.task_id, "c2") # {}
          /\ OpenOf(assigned, t.task_id, "c1") = {}

-----------------------------------------------------------------------------
\* The list and the completion at one instant

\* handle_tasks, the loop body: the reward the entry of the row tells the child.
\* Every entry shows the reward of the task; the entry of a daily or weekly row
\* whose time_left is not > 0 adds "can be completed for 50% of the reward",
\* the entry of a special row never does
Announced(a) ==
    LET t == TaskOf(a.task_id) IN
    IF t.type = "special" THEN t.reward
    ELSE IF a.due_date > now THEN t.reward
    ELSE t.reward \div 2

\* C39: whenever the list of a child offers the complete action of an
\* assignment, a completion of it by the child at the same instant passes the
\* guard and pays the reward the entry announces
C39_ButtonMeansPaid ==
    \A c \in Children : \A a \in ActiveRows(assigned, c) :
        HasButton(a)
        => /\ CompletionGuard(TaskOf(a.task_id).type, a.assigned_date, now) = "ok"
           /\ FinalReward(TaskOf(a.task_id).type, TaskOf(a.task_id).reward,
                          a.due_date, now) = Announced(a)

-----------------------------------------------------------------------------
\* The end of a wizard flow

\* handle_rewards_callback: the session it makes when there is none carries
\* 'rewards' and no 'step'; the amounts in it reach no table
\* (save_default_rewards stores nothing).  A session of another flow has no
\* key 'rewards': KeyError, the session stays
handle_rewards_callback(user_id, data) ==
    LET user_data == user_temp_data[user_id] IN
    /\ IF ~is_admin(user_id)
       THEN /\ out' = Out(data, user_id, "not_admin", NULL, 0, {})
            /\ UNCHANGED user_temp_data
       ELSE IF user_data.present /\ user_data.step # "NULL"
       THEN /\ out' = Out(data, user_id, "error", NULL, 0, {})
            /\ UNCHANGED user_temp_data
       ELSE IF data = "rewards_save"
       THEN /\ user_temp_data' = [user_temp_data EXCEPT ![user_id] = NoSession]
            /\ out' = Out(data, user_id, "saved", NULL, 0, {})
       ELSE /\ user_temp_data' = [user_temp_data EXCEPT ![user_id] = BlankSession]
            /\ out' = Out(data, user_id, "ok", NULL, 0, {})
    /\ last' = NoLast
    /\ UNCHANGED <<now, schema, store, pc, loc>>

\* the callback data of the keyboards that start with 'balance_'
BalanceData ==
    {"balance_management", "balance_add", "balance_remove", "balance_list",
     "balance_history", "balance_back", "balance_cancel"}
\* the callback data that start with 'reward_' or 'rewards_'
RewardData ==
    {"reward_daily_up", "reward_daily_down", "reward_weekly_up",
     "reward_weekly_down", "rewards_save", "rewards_reset", "rewards_settings"}

\* process_callback_query for the data of the balance, reward and cancel
\* buttons: the first branch that matches, in the order of the source
process_callback_query(user_id, data) ==
    IF data \in BalanceData \/ data = "rewards_settings"
    THEN handle_balance_callback(user_id, data)
    ELSE IF data = "balance_cancel"
    THEN handle_child_selection(user_id, data)
    ELSE IF data \in RewardData
    THEN handle_rewards_callback(user_id, data)
    ELSE /\ data = "cancel"
         /\ handle_task_creation_callback(user_id, <<"cancel">>)

\* the buttons a1 presses in the flows
FlowButtons ==
    {"cancel", "balance_add", "balance_remove", "balance_cancel", "balance_back",
     "rewards_settings", "reward_daily_up", "rewards_save"}

\* a1 starts flows, goes through them, and leaves them
NextFlow ==
    \/ start_add_task("a1")
    \/ \E data \in FlowButtons : process_callback_query("a1", data)
    \/ \E c \in {"c1", "c2"} : handle_child_selection("a1", c)
    \/ \E text \in Texts : nextTaskId <= MaxTasks /\ handle_user_input("a1", text)

SpecFlow == Init /\ [][NextFlow]_vars

\* C38: the session of a1 is gone after every step that ends a flow: the cancel
\* of the task wizard, balance_cancel, balance_back, rewards_save, the creation
\* of a task and the adjustment of a balance; the next text is then answered
\* as an unknown command
C38_FlowEndDiscardsSession ==
    [][/\ \A data \in {"cancel", "balance_cancel", "balance_back", "rewards_save"} :
            process_callback_query("a1", data) => ~user_temp_data'["a1"].present
       /\ out'.res \in {"created", "add_balance", "remove_balance"}
            => ~user_temp_data'["a1"].present
       /\ \A text \in Texts :
            (handle_user_input("a1", text) /\ ~user_temp_data["a1"].present)
            => out'.res = "unknown_command"]_vars

-----------------------------------------------------------------------------
\* What a user who is no admin can do

\* c1, a registered child, and c3, who has no row yet
Guests == {"c1", "c3"}

\* a1 stores tasks and the sweeps assign them, while the guests send every
\* message and press every button, those of the admin's keyboards included
NextGuest ==
    \/ Tick(Horizon)
    \/ \E text \in Texts : handle_user_input("a1", text)
    \/ \E type \in {"daily", "weekly"} : TaskScheduler_assign(type)
    \/ \E u \in Guests : handle_start(u)
    \/ \E u \in Guests, text \in Texts : handle_user_input(u, text)
    \/ \E u \in Guests, aid \in AssignmentIds : handle_complete_task(u, aid)
    \/ \E u \in Guests, aid \in AssignmentIds : handle_return_task(u, aid)
    \/ \E u \in Guests, data \in Buttons : handle_admin_callback(u, data)
    \/ \E u \in Guests : start_add_task(u)
    \/ \E u \in Guests : assign_daily_tasks(u)
    \/ \E u \in Guests, data \in WizardButtons : handle_task_creation_callback(u, data)
    \/ \E u \in Guests, data \in {"child_all", "confirm", "c1"} :
           handle_special_child_selection(u, data)
    \/ \E u \in Guests, c \in {"c1", "c2"} : handle_child_selection(u, c)
    \/ \E u \in Guests, data \in FlowButtons : process_callback_query(u, data)

SpecGuest == InitSched /\ [][NextGuest]_vars

\* the row a of assigned_tasks after its completion by its child
CompletedBy(a, rows, u) ==
    /\ a.child_id = u /\ ~a.is_completed
    /\ \E b \in rows : /\ b.assignment_id = a.assignment_id
                       /\ b.is_completed
                       /\ b.task_id = a.task_id /\ b.child_id = u

\* C34: a step of a user who is no admin leaves the tasks, the rows of the
\* other users and the sessions as they are; it creates and deletes no
\* assignment and changes one only by completing an open one of the user; it
\* adds no ledger entry but the task_reward of the user; the user's own row
\* changes only by the registration or by that reward
C34_GuestChangesOwnOnly ==
    [][\A u \in UserIds :
          (out'.user = u /\ users[u].role # "admin")
          => /\ UNCHANGED <<tasks, nextTaskId, nextAssignmentId, user_temp_data>>
             /\ \A v \in UserIds \ {u} : users'[v] = users[v]
             /\ {a.assignment_id : a \in assigned'} = {a.assignment_id : a \in assigned}
             /\ \A a \in assigned : a \in assigned' \/ CompletedBy(a, assigned', u)
             /\ \/ transactions' = transactions
                \/ /\ Len(transactions') = Len(transactions) + 1
                   /\ SubSeq(transactions', 1, Len(transactions)) = transactions
                   /\ transactions'[Len(transactions')].type = "task_reward"
                   /\ transactions'[Len(transactions')].child_id = u
                   /\ assigned' # assigned
             /\ \/ users'[u] = users[u]
                \/ users[u].role = "none" /\ users'[u].role = "child"
                                          /\ users'[u].balance = 0
                \/ /\ transactions' # transactions
                   /\ users'[u] = [users[u] EXCEPT !.balance =
                          @ + transactions'[Len(transactions')].amount]]_vars

\* c1 has pressed the return button of an assignment that is completed and
\* has been refused
C34_Witness ==
    /\ out.op = "return" /\ out.user = "c1" /\ out.res = "not_admin"
    /\ \E a \in assigned : a.assignment_id = out.assignment_id /\ a.is_completed
    /\ users["c1"].balance > 0

====
